---------------------------- MODULE Spec2Model ----------------------------
(***************************************************************************)
(* State-machine model of src/mcp/contoso_tools_cosmos.py, the Contoso     *)
(* customer-service data-access layer over Azure Cosmos DB.                *)
(*                                                                         *)
(* The store is a family of collections; each collection is the sequence   *)
(* of its documents in storage order, and a query returns the matching     *)
(* documents in that order.  Every public coroutine of the module is a     *)
(* request (a worker) whose steps are its store calls: the local           *)
(* computation between two store calls belongs to the step of the store    *)
(* call that follows it (the last step also computes the returned value).  *)
(*                                                                         *)
(* Money amounts are Python floats in the source; the model keeps them as  *)
(* integers (whole currency units), on which the arithmetic is exact.      *)
(***************************************************************************)
EXTENDS Integers, Sequences, FiniteSets, TLC

\* ------------------------------------------------------------------ bounds
\* Number of concurrent requests (workers).
NumProcs == 2
\* Calls started, in total, along one behaviour of requests run one at a time.
MaxOps == 3
\* Calls started, in total, along one behaviour of concurrent requests.
MaxConcurrentOps == 2
\* The read-only requests run one at a time: how many.
MaxQueries == 2
\* Calls started, in total, when a composite read races with payments.
MaxRaceOps == 3

\* Calls started, in total, along one behaviour in which queries may fail.
MaxFaultOps == 2

\* The knowledge base holds up to MaxDocs documents.
MaxDocs == 5

Procs == 1..NumProcs

\* ------------------------------------------------------- values and inputs
\* Python's None.
Null == "null"
\* datetime.now().strftime(...): one clock value for the whole behaviour.
Today == "today"

\* f"payment_{n}" / str(n): a document id is its prefix and its number.
DocId(prefix, n) == <<prefix, n>>

\* Inputs the operations are called with.
InvoiceIdInputs == {1, 2, 9}
AmountInputs == {50, -50}
SubscriptionIdInputs == {1, 2, 9}
CustomerIdInputs == {1, 2, 3}
\* customer 9 does not exist
CustomerLookupInputs == {1, 2, 3, 9}
\* datetime.now().strftime("%Y-%m-%d"): days inside, on the edge of and outside
\* the seeded promotions
TodayInputs == {20230101, 20230701, 20231231, 20240301, 20260101}
QueryInputs == {"billing", "roaming", "security"}
TopKInputs == {1, 3, MaxDocs + 1}

\* ------------------------------------------------------------- pure helpers
Max2(a, b) == IF a >= b THEN a ELSE b

RECURSIVE SumAmount(_)
\* sum(p["amount"] for p in payments): left fold from 0.
SumAmount(seq) ==
    IF seq = <<>> THEN 0
    ELSE SumAmount(SubSeq(seq, 1, Len(seq) - 1)) + seq[Len(seq)].amount

MaxOfSet(S) == CHOOSE m \in S : \A x \in S : x <= m

\* Mutant of MaxIdOrZero: the default for an empty collection is 1, not 0.
MaxIdOrOne(coll, field) ==
    IF coll = <<>> THEN 1
    ELSE MaxOfSet({coll[i][field] : i \in 1..Len(coll)})

\* SELECT VALUE MAX(c.<field>) FROM c, then
\* max_ids[0] if max_ids and max_ids[0] is not None else 0
\* (the aggregate over an empty collection yields no number).
MaxIdOrZero(coll, field) ==
    IF coll = <<>> THEN 0
    ELSE MaxOfSet({coll[i][field] : i \in 1..Len(coll)})

\* A record with one more (or one replaced) field: dict[k] = v.
SetField(doc, k, v) ==
    [x \in (DOMAIN doc) \cup {k} |-> IF x = k THEN v ELSE doc[x]]

\* --------------------------------------------------------------- seed data
\* Documents as the seeding script writes them: "id" is str(counter).
SeedProducts ==
    << [id |-> DocId("", 1), product_id |-> 1, name |-> "Contoso Internet Plan",
        description |-> "d1", category |-> "internet", monthly_fee |-> 50],
       [id |-> DocId("", 2), product_id |-> 2, name |-> "Contoso Mobile Plan",
        description |-> "d2", category |-> "mobile", monthly_fee |-> 30] >>

SeedSubscription(n, cust, prod) ==
    [id |-> DocId("", n), subscription_id |-> n, customer_id |-> cust,
     product_id |-> prod, status |-> "active", service_status |-> "normal"]

\* Customer 1 owns subscriptions 1 and 2, customer 2 owns subscription 3 (which
\* has no invoice and names a product that does not exist), customer 3 owns none.
SeedSubscriptions ==
    << SeedSubscription(1, 1, 1), SeedSubscription(2, 1, 2),
       SeedSubscription(3, 2, 7) >>

SeedInvoice(n, sub, amt) ==
    [id |-> DocId("", n), invoice_id |-> n, subscription_id |-> sub, amount |-> amt]

SeedInvoices ==
    << SeedInvoice(1, 1, 150), SeedInvoice(2, 2, 100), SeedInvoice(3, 1, 60) >>

SeedPayment(n, inv, amt, st) ==
    [id |-> DocId("", n), payment_id |-> n, invoice_id |-> inv,
     payment_date |-> "seed", amount |-> amt, method |-> "credit_card",
     status |-> st]

\* A ledger with every payment status, and an overpaid invoice (3).
SeedPayments ==
    << SeedPayment(1, 1, 50, "successful"), SeedPayment(2, 1, 25, "partial"),
       SeedPayment(3, 1, 10, "pending"), SeedPayment(4, 3, 80, "successful"),
       SeedPayment(5, 2, 5, "failed"), SeedPayment(6, 2, 7, "completed") >>

SeedLog(n, cust, ev) ==
    [id |-> DocId("", n), log_id |-> n, customer_id |-> cust, event_type |-> ev,
     event_timestamp |-> "seed", description |-> "seeded"]

\* Customers 1 and 2 have been locked out; customer 3 only has a login attempt.
SeedSecurityLogs ==
    << SeedLog(1, 1, "account_locked"), SeedLog(2, 2, "account_locked"),
       SeedLog(3, 3, "login_attempt") >>

SeedTicket(n, cust, sub) ==
    [id |-> DocId("", n), ticket_id |-> n, customer_id |-> cust,
     subscription_id |-> sub, category |-> "billing", opened_at |-> "seed",
     closed_at |-> "seed", status |-> "closed", priority |-> "normal",
     subject |-> "s", description |-> "d", cs_agent |-> "AgentSmith"]

SeedSupportTickets == << SeedTicket(1, 1, 1), SeedTicket(2, 2, 3) >>

SeedServiceIncidents ==
    << [id |-> DocId("", 1), incident_id |-> 1, subscription_id |-> 2,
        incident_date |-> "seed", description |-> "outage",
        resolution_status |-> "investigating"] >>

\* An update payload is a Python dict: its items in insertion order, each a
\* key, whether the value is None, and the value.
Item(k, v) == [k |-> k, none |-> FALSE, v |-> v]
NoneItem(k) == [k |-> k, none |-> TRUE, v |-> Null]

\* The customers: 1 is Gold, 2 Silver, 3 Bronze (loyalty_levels).
SeedCustomer(n, loyalty) ==
    [id |-> DocId("", n), customer_id |-> n, first_name |-> "name",
     loyalty_level |-> loyalty]

SeedCustomers ==
    << SeedCustomer(1, "Gold"), SeedCustomer(2, "Silver"), SeedCustomer(3, "Bronze") >>

\* A text is the sequence of its pieces; a date "YYYY-MM-DD" is the number
\* YYYYMMDD, whose order is the order of the strings.
LoyaltyIs(loyalty) == << "loyalty_level", " = '", loyalty, "'" >>

SeedPromotion(n, prod, crit, start, end) ==
    [id |-> DocId("", n), promotion_id |-> n, product_id |-> prod,
     name |-> "promotion", eligibility_criteria |-> crit,
     start_date |-> start, end_date |-> end, discount_percent |-> 10]

\* promotion_data
SeedPromotions ==
    << SeedPromotion(1, 1, LoyaltyIs("Gold"), 20230101, 20231231),
       SeedPromotion(2, 2, << "subscription_start within last 90 days" >>,
                     20230601, 20230930),
       SeedPromotion(3, 3, << "any customer" >>, 20240101, 20240630),
       SeedPromotion(4, 1, LoyaltyIs("Gold"), 20250601, 20250831) >>

\* Promotions an operator may add to the container: a criterion on the loyalty
\* level that is not an equality, one with two conditions, an empty one, and a
\* promotion with no eligibility_criteria at all.
MorePromotions ==
    << SeedPromotion(5, 1, << "loyalty_level", " IN ('Gold', 'Silver')" >>,
                     20230101, 20231231),
       SeedPromotion(6, 2, LoyaltyIs("Silver") \o << " AND tenure > 1" >>,
                     20230101, 20231231),
       SeedPromotion(7, 2, << >>, 20230101, 20231231),
       [id |-> DocId("", 8), promotion_id |-> 8, product_id |-> 2,
        name |-> "promotion", start_date |-> 20230101, end_date |-> 20231231,
        discount_percent |-> 10] >>

SeedOrder(n, cust, prod, date) ==
    [id |-> DocId("", n), order_id |-> n, customer_id |-> cust, product_id |-> prod,
     order_date |-> date, amount |-> 20 + n, order_status |-> "delivered"]

\* Customer 1 has three orders, two of the same day and one of a product that
\* does not exist; customer 2 has one; customer 3 has none.
SeedOrders ==
    << SeedOrder(1, 1, 1, 20240105), SeedOrder(2, 1, 7, 20240210),
       SeedOrder(3, 1, 2, 20240105), SeedOrder(4, 2, 1, 20240301) >>

\* Embeddings have two components here. [0.0] * 1536
ZeroVector == << 0, 0 >>

\* The embedding of document n; documents 4 and 5 point the same way.
DocVector(n) == << n % 3, ((n * n) % 4) + 1 >>

\* kb_docs; content_vector is the zero vector when the seeder ran without
\* credentials.
SeedKnowledgeDocument(n, embedded) ==
    [id |-> DocId("", n), document_id |-> n, title |-> << "title", n >>,
     doc_type |-> IF n % 2 = 0 THEN "procedure" ELSE "policy",
     content |-> << "content", n >>,
     content_vector |-> IF embedded THEN DocVector(n) ELSE ZeroVector]

SeedKnowledgeDocuments(count, embedded) ==
    [n \in 1..count |-> SeedKnowledgeDocument(n, embedded)]

\* Payloads over the mutable attributes of a subscription.
UpdateInputs ==
    { <<>>,
      << NoneItem("status") >>,
      << Item("status", "suspended") >>,
      << Item("service_status", "slow") >>,
      << Item("status", "cancelled"), NoneItem("service_status") >>,
      << Item("product_id", 7), Item("autopay_enabled", "yes") >> }

\* ------------------------------------------------------------------- state
VARIABLES
    \* the store: one sequence of documents per container (CONTAINERS)
    products, subscriptions, invoices, payments, service_incidents,
    security_logs, support_tickets,
    \* the containers no operation writes
    customers, promotions, orders, knowledge_documents,
    \* the embedding client: whether the try block at import built it
    openai_client,
    \* the connection handle of the process (_cosmos_client, _database)
    conn,
    \* the requests
    pc,     \* where each worker is in its coroutine
    op,     \* the call each worker is running (name and arguments)
    loc,    \* the coroutine's local variables
    ret,    \* what the call returned or raised
    prev,   \* history: the call this worker completed just before this one
    budget  \* calls that may still be started

catalog == <<customers, promotions, orders, knowledge_documents>>
store == <<products, subscriptions, invoices, payments, service_incidents,
           security_logs, support_tickets, catalog>>
vars == <<store, openai_client, conn, pc, op, loc, ret, prev, budget>>

\* ------------------------------------------------- the connection handle
\* _cosmos_client = None, _database = None; clients_created counts the calls of
\* CosmosClient(...) the process has made (history)
NoConnection == [cosmos_client |-> Null, database |-> Null, clients_created |-> 0]

\* get_cosmos_client()
GetCosmosClient(c) ==
    IF c.cosmos_client = Null
    THEN [c EXCEPT !.cosmos_client = "CosmosClient", !.clients_created = @ + 1]
    ELSE c

\* get_database()
GetDatabase(c) ==
    IF c.database = Null
    THEN [GetCosmosClient(c) EXCEPT !.database = "DatabaseProxy"]
    ELSE c

\* Mutant of GetContainer: a new client for every call, nothing kept.
GetContainerUncached(c) ==
    [cosmos_client |-> "CosmosClient", database |-> "DatabaseProxy",
     clients_created |-> c.clients_created + 1]

\* get_container(container_name): db = get_database()
GetContainer(c) ==
    GetDatabase(c)

NoOp == [name |-> "none"]
NoLoc == [none |-> TRUE]
NoRet == [status |-> "none"]
NoPrev == [op |-> NoOp, ret |-> NoRet]

InitRequests ==
    /\ pc = [p \in Procs |-> "idle"]
    /\ op = [p \in Procs |-> NoOp]
    /\ loc = [p \in Procs |-> NoLoc]
    /\ ret = [p \in Procs |-> NoRet]
    /\ prev = [p \in Procs |-> NoPrev]

InitStore ==
    /\ products = SeedProducts
    /\ subscriptions = SeedSubscriptions
    /\ invoices = SeedInvoices
    /\ service_incidents = SeedServiceIncidents
    /\ customers = SeedCustomers
    /\ promotions = SeedPromotions
    /\ orders = SeedOrders
    /\ knowledge_documents = SeedKnowledgeDocuments(MaxDocs, TRUE)
    /\ openai_client = "built"
    /\ conn = NoConnection
    \* the ledgers: all empty (a fresh store), or all seeded
    /\ \E seeded \in BOOLEAN :
          /\ payments = IF seeded THEN SeedPayments ELSE <<>>
          /\ security_logs = IF seeded THEN SeedSecurityLogs ELSE <<>>
          /\ support_tickets = IF seeded THEN SeedSupportTickets ELSE <<>>
    /\ InitRequests

\* concurrent requests
Init == InitStore /\ budget = MaxConcurrentOps

\* requests run one at a time
SeqInit == InitStore /\ budget = MaxOps

\* -------------------------------------------------- the store's operations
\* Mutant of CreateConflict: "id" unique in the whole container, whatever the
\* partition.
CreateConflictAnyPartition(coll, body, pk) ==
    \E i \in 1..Len(coll) : coll[i].id = body.id

\* container.create_item(body): the store keeps "id" unique within a logical
\* partition (the container's partition key path) and rejects a second
\* document with the same id and partition key value.
CreateConflict(coll, body, pk) ==
    \E i \in 1..Len(coll) : coll[i].id = body.id /\ coll[i][pk] = body[pk]

\* container.replace_item(item=id, body=body): the document with that id in
\* the partition of the body; 0 when there is none.
ReplaceIndex(coll, id, body, pk) ==
    IF \E i \in 1..Len(coll) : coll[i].id = id /\ coll[i][pk] = body[pk]
    THEN CHOOSE i \in 1..Len(coll) : coll[i].id = id /\ coll[i][pk] = body[pk]
    ELSE 0

\* --------------------------------------------------- how a request ends
\* return value (the locals stay as they were at the return, until the worker
\* takes its next call)
Return(p, value) ==
    /\ ret' = [ret EXCEPT ![p] = [status |-> "ok", value |-> value]]
    /\ pc' = [pc EXCEPT ![p] = "done"]
    /\ loc' = loc

\* raise ValueError(msg), or an exception of the store, propagated
Raise(p, msg) ==
    /\ ret' = [ret EXCEPT ![p] = [status |-> "error", error |-> msg]]
    /\ pc' = [pc EXCEPT ![p] = "done"]
    /\ loc' = loc

\* a step that stays inside the coroutine
Goto(p, label, locals) ==
    /\ pc' = [pc EXCEPT ![p] = label]
    /\ loc' = [loc EXCEPT ![p] = locals]
    /\ ret' = ret

\* A worker that is free takes a new call; the call it just completed, if it
\* changed the store's ledgers, is remembered as prev.
Free(p) == pc[p] \in {"idle", "done"}

Begin(p, call, label) ==
    /\ budget > 0
    /\ budget' = budget - 1
    /\ op' = [op EXCEPT ![p] = call]
    /\ pc' = [pc EXCEPT ![p] = label]
    /\ loc' = [loc EXCEPT ![p] = NoLoc]
    /\ ret' = [ret EXCEPT ![p] = NoRet]
    /\ prev' = [prev EXCEPT ![p] =
                  IF op[p].name \in {"pay_invoice", "unlock_account"}
                  THEN [op |-> op[p], ret |-> ret[p]] ELSE NoPrev]
    /\ UNCHANGED <<store, openai_client, conn>>

\* ---------------------------------------------------------- pay_invoice_async
\* SELECT c.amount FROM c WHERE c.invoice_id = @invoice_id AND c.status = 'successful'
QuerySuccessfulPayments(invoice_id) ==
    SelectSeq(payments,
              LAMBDA d : d.invoice_id = invoice_id /\ d.status = "successful")

NewPayment(max_payment_id, invoice_id, amount, method) ==
    [id |-> DocId("payment_", max_payment_id + 1),
     payment_id |-> max_payment_id + 1,
     invoice_id |-> invoice_id,
     payment_date |-> Today,
     amount |-> amount,
     method |-> method,
     status |-> "successful"]

\* Mutant of PayOutstanding: the new payment is not deducted.
PayOutstandingBefore(invoice, current_paid, amount) ==
    Max2(invoice.amount - current_paid, 0)

\* max(invoice["amount"] - (current_paid + amount), 0.0)
PayOutstanding(invoice, current_paid, amount) ==
    Max2(invoice.amount - (current_paid + amount), 0)

CallPayInvoice(p) ==
    /\ Free(p)
    /\ \E i \in InvoiceIdInputs, a \in AmountInputs :
            Begin(p, [name |-> "pay_invoice", invoice_id |-> i, amount |-> a,
                      method |-> "credit_card"], "pay_read_invoice")

\* Mutant of PayReadInvoice: no "Invoice not found" check.
PayReadInvoiceUnchecked(p) ==
    /\ pc[p] = "pay_read_invoice"
    /\ LET found == SelectSeq(invoices, LAMBDA d : d.invoice_id = op[p].invoice_id)
       IN Goto(p, "pay_read_payments",
               [invoice |-> IF found = <<>>
                            THEN SeedInvoice(op[p].invoice_id, 0, 0) ELSE found[1]])
    /\ conn' = GetContainer(conn)
    /\ UNCHANGED <<store, op, prev, budget, openai_client>>

PayReadInvoice(p) ==
    /\ pc[p] = "pay_read_invoice"
    /\ LET found == SelectSeq(invoices, LAMBDA d : d.invoice_id = op[p].invoice_id)
       IN IF found = <<>>
          THEN Raise(p, "Invoice not found")
          ELSE Goto(p, "pay_read_payments", [invoice |-> found[1]])
    /\ conn' = GetContainer(conn)
    /\ UNCHANGED <<store, op, prev, budget, openai_client>>

PayReadPayments(p) ==
    /\ pc[p] = "pay_read_payments"
    /\ Goto(p, "pay_read_max",
            [invoice |-> loc[p].invoice,
             current_paid |-> SumAmount(QuerySuccessfulPayments(op[p].invoice_id))])
    /\ UNCHANGED <<store, op, prev, budget, openai_client, conn>>

\* Mutant of PayReadMax: the identifier read is reserved at once by a pending
\* payment of amount 0, written before the final create_item.
PayReadMaxReserving(p) ==
    /\ pc[p] = "pay_read_max"
    /\ Goto(p, "pay_create",
            [invoice |-> loc[p].invoice,
             current_paid |-> loc[p].current_paid,
             max_payment_id |-> MaxIdOrZero(payments, "payment_id"),
             seen |-> Len(payments)])
    /\ payments' = Append(payments,
                      [NewPayment(MaxIdOrZero(payments, "payment_id"),
                                  op[p].invoice_id, 0, op[p].method)
                       EXCEPT !.status = "pending"])
    /\ UNCHANGED <<catalog, products, subscriptions, invoices, service_incidents,
                   security_logs, support_tickets, op, prev, budget, openai_client, conn>>

PayReadMax(p) ==
    /\ pc[p] = "pay_read_max"
    /\ Goto(p, "pay_create",
            [invoice |-> loc[p].invoice,
             current_paid |-> loc[p].current_paid,
             max_payment_id |-> MaxIdOrZero(payments, "payment_id"),
             seen |-> Len(payments)])
    /\ UNCHANGED <<store, op, prev, budget, openai_client, conn>>

\* Mutant of PayCreate: a payment equal to one already recorded (same invoice,
\* amount, method and date) is not recorded again.
PayCreateIdempotent(p) ==
    /\ pc[p] = "pay_create"
    /\ LET new_payment == NewPayment(loc[p].max_payment_id, op[p].invoice_id,
                                     op[p].amount, op[p].method)
           same(d) == /\ d.invoice_id = new_payment.invoice_id
                      /\ d.amount = new_payment.amount
                      /\ d.method = new_payment.method
                      /\ d.payment_date = new_payment.payment_date
                      /\ d.status = new_payment.status
       IN IF \E i \in 1..Len(payments) : same(payments[i])
          THEN /\ UNCHANGED payments
               /\ Return(p, [invoice_id |-> op[p].invoice_id,
                             outstanding |-> Max2(loc[p].invoice.amount
                                                   - loc[p].current_paid, 0)])
          ELSE /\ payments' = Append(payments, new_payment)
               /\ Return(p, [invoice_id |-> op[p].invoice_id,
                             outstanding |-> PayOutstanding(loc[p].invoice,
                                                loc[p].current_paid, op[p].amount)])
    /\ UNCHANGED <<catalog, products, subscriptions, invoices, service_incidents,
                   security_logs, support_tickets, op, prev, budget, openai_client, conn>>

PayCreate(p) ==
    /\ pc[p] = "pay_create"
    /\ LET new_payment == NewPayment(loc[p].max_payment_id, op[p].invoice_id,
                                     op[p].amount, op[p].method)
       IN IF CreateConflict(payments, new_payment, "invoice_id")
          THEN /\ Raise(p, "Conflict")
               /\ UNCHANGED payments
          ELSE /\ payments' = Append(payments, new_payment)
               /\ Return(p, [invoice_id |-> op[p].invoice_id,
                             outstanding |-> PayOutstanding(loc[p].invoice,
                                                loc[p].current_paid, op[p].amount)])
    /\ UNCHANGED <<catalog, products, subscriptions, invoices, service_incidents,
                   security_logs, support_tickets, op, prev, budget, openai_client, conn>>


\* --------------------------------------------------- update_subscription_async
\* Mutant of UpdateData: None values are kept.
UpdateDataUnfiltered(updates) == updates

\* data = {k: v for k, v in updates.items() if v is not None}
UpdateData(updates) == SelectSeq(updates, LAMBDA e : ~e.none)

\* Mutant of ApplyUpdates: only the first item is applied.
ApplyFirstOnly(doc, data) == SetField(doc, data[1].k, data[1].v)

RECURSIVE ApplyUpdates(_, _)
\* for key, value in data.items(): subscription[key] = value
ApplyUpdates(doc, data) ==
    IF data = <<>> THEN doc
    ELSE ApplyUpdates(SetField(doc, data[1].k, data[1].v), Tail(data))

\* list(data.keys())
Keys(data) == [i \in 1..Len(data) |-> data[i].k]

\* SELECT * FROM c WHERE c.subscription_id = @subscription_id
QuerySubscription(subscription_id) ==
    SelectSeq(subscriptions, LAMBDA d : d.subscription_id = subscription_id)

CallUpdateSubscription(p) ==
    /\ Free(p)
    /\ \E s \in {1, 9}, u \in UpdateInputs :
            Begin(p, [name |-> "update_subscription", subscription_id |-> s,
                      updates |-> u], "upd_read")

UpdRead(p) ==
    /\ pc[p] = "upd_read"
    /\ IF op[p].updates = <<>>
       THEN Raise(p, "No fields supplied")
       ELSE IF UpdateData(op[p].updates) = <<>>
       THEN Raise(p, "No valid fields to update")
       ELSE LET found == QuerySubscription(op[p].subscription_id)
            IN IF found = <<>>
               THEN Raise(p, "Subscription not found")
               ELSE Goto(p, "upd_replace", [subscription |-> found[1]])
    /\ conn' = IF op[p].updates = <<>> \/ UpdateData(op[p].updates) = <<>>
                THEN conn ELSE GetContainer(conn)
    /\ UNCHANGED <<store, op, prev, budget, openai_client>>

\* Mutant of UpdReplace: the supplied fields are merged over the document as it
\* is in the store at the write, not as it was read.
UpdReplaceMerge(p) ==
    /\ pc[p] = "upd_replace"
    /\ LET data == UpdateData(op[p].updates)
           i == ReplaceIndex(subscriptions, loc[p].subscription.id,
                             loc[p].subscription, "customer_id")
       IN IF i = 0
          THEN /\ Raise(p, "NotFound")
               /\ UNCHANGED subscriptions
          ELSE /\ subscriptions' =
                     [subscriptions EXCEPT ![i] = ApplyUpdates(subscriptions[i], data)]
               /\ Return(p, [subscription_id |-> op[p].subscription_id,
                             updated_fields |-> Keys(data)])
    /\ UNCHANGED <<catalog, products, invoices, payments, service_incidents,
                   security_logs, support_tickets, op, prev, budget, openai_client, conn>>

UpdReplace(p) ==
    /\ pc[p] = "upd_replace"
    /\ LET data == UpdateData(op[p].updates)
           body == ApplyUpdates(loc[p].subscription, data)
           i == ReplaceIndex(subscriptions, body.id, body, "customer_id")
       IN IF i = 0
          THEN /\ Raise(p, "NotFound")
               /\ UNCHANGED subscriptions
          ELSE /\ subscriptions' = [subscriptions EXCEPT ![i] = body]
               /\ Return(p, [subscription_id |-> op[p].subscription_id,
                             updated_fields |-> Keys(data)])
    /\ UNCHANGED <<catalog, products, invoices, payments, service_incidents,
                   security_logs, support_tickets, op, prev, budget, openai_client, conn>>

\* ------------------------------------------------- create_support_ticket_async
\* Mutant of NewTicket: the ticket's "id" is built with the payments' prefix.
NewTicketKeyedAsPayment(max_ticket_id, call) ==
    [id |-> DocId("payment_", max_ticket_id + 1),
     ticket_id |-> max_ticket_id + 1,
     customer_id |-> call.customer_id,
     subscription_id |-> call.subscription_id,
     category |-> call.category,
     opened_at |-> Today,
     closed_at |-> Null,
     status |-> "open",
     priority |-> call.priority,
     subject |-> call.subject,
     description |-> call.description,
     cs_agent |-> "AI_Bot"]

NewTicket(max_ticket_id, call) ==
    [id |-> DocId("ticket_", max_ticket_id + 1),
     ticket_id |-> max_ticket_id + 1,
     customer_id |-> call.customer_id,
     subscription_id |-> call.subscription_id,
     category |-> call.category,
     opened_at |-> Today,
     closed_at |-> Null,
     status |-> "open",
     priority |-> call.priority,
     subject |-> call.subject,
     description |-> call.description,
     cs_agent |-> "AI_Bot"]

CallCreateSupportTicket(p) ==
    /\ Free(p)
    /\ \E c \in {1, 2} :
            Begin(p, [name |-> "create_support_ticket", customer_id |-> c,
                      subscription_id |-> 1, category |-> "billing",
                      priority |-> "high", subject |-> "s", description |-> "d"],
                  "tkt_read_max")

TktReadMax(p) ==
    /\ pc[p] = "tkt_read_max"
    /\ Goto(p, "tkt_create",
            [max_ticket_id |-> MaxIdOrZero(support_tickets, "ticket_id"),
             seen |-> Len(support_tickets)])
    /\ conn' = GetContainer(conn)
    /\ UNCHANGED <<store, op, prev, budget, openai_client>>

TktCreate(p) ==
    /\ pc[p] = "tkt_create"
    /\ LET new_ticket == NewTicket(loc[p].max_ticket_id, op[p])
       IN IF CreateConflict(support_tickets, new_ticket, "customer_id")
          THEN /\ Raise(p, "Conflict")
               /\ UNCHANGED support_tickets
          ELSE /\ support_tickets' = Append(support_tickets, new_ticket)
               /\ Return(p, new_ticket)
    /\ UNCHANGED <<catalog, products, subscriptions, invoices, payments, service_incidents,
                   security_logs, op, prev, budget, openai_client, conn>>

\* -------------------------------------------------------- unlock_account_async
\* Mutant of QueryLockEvents: any event of the customer counts as a lock.
QueryAnyEvents(customer_id) ==
    SelectSeq(security_logs, LAMBDA d : d.customer_id = customer_id)

\* SELECT TOP 1 * FROM c WHERE c.customer_id = @customer_id
\*   AND c.event_type = 'account_locked' ORDER BY c.event_timestamp DESC
\* (only whether the result is empty is used)
QueryLockEvents(customer_id) ==
    SelectSeq(security_logs,
              LAMBDA d : d.customer_id = customer_id /\ d.event_type = "account_locked")

\* Mutant of NewUnlockEvent: the entry takes the maximum itself as log_id.
NewUnlockEventAtMaximum(max_log_id, customer_id) ==
    [id |-> DocId("security_log_", max_log_id + 1),
     log_id |-> max_log_id,
     customer_id |-> customer_id,
     event_type |-> "account_unlocked",
     event_timestamp |-> Today,
     description |-> "Unlocked via API"]

NewUnlockEvent(max_log_id, customer_id) ==
    [id |-> DocId("security_log_", max_log_id + 1),
     log_id |-> max_log_id + 1,
     customer_id |-> customer_id,
     event_type |-> "account_unlocked",
     event_timestamp |-> Today,
     description |-> "Unlocked via API"]

CallUnlockAccount(p) ==
    /\ Free(p)
    /\ \E c \in CustomerIdInputs :
            Begin(p, [name |-> "unlock_account", customer_id |-> c], "unl_read_lock")

\* Mutant of UnlReadLock: a lock event followed by an unlock event of the
\* customer no longer counts, "nothing to do" is raised.
UnlReadLockUnresolved(p) ==
    /\ pc[p] = "unl_read_lock"
    /\ LET locks == QueryLockEvents(op[p].customer_id)
           resolved(d) == \E i \in 1..Len(security_logs) :
                             /\ security_logs[i].customer_id = op[p].customer_id
                             /\ security_logs[i].event_type = "account_unlocked"
                             /\ security_logs[i].log_id > d.log_id
       IN IF SelectSeq(locks, LAMBDA d : ~ resolved(d)) = <<>>
          THEN Raise(p, "No recent lock event; nothing to do.")
          ELSE Goto(p, "unl_read_max", NoLoc)
    /\ conn' = GetContainer(conn)
    /\ UNCHANGED <<store, op, prev, budget, openai_client>>

UnlReadLock(p) ==
    /\ pc[p] = "unl_read_lock"
    /\ IF QueryLockEvents(op[p].customer_id) = <<>>
       THEN Raise(p, "No recent lock event; nothing to do.")
       ELSE Goto(p, "unl_read_max", NoLoc)
    /\ conn' = GetContainer(conn)
    /\ UNCHANGED <<store, op, prev, budget, openai_client>>

UnlReadMax(p) ==
    /\ pc[p] = "unl_read_max"
    /\ Goto(p, "unl_create",
            [max_log_id |-> MaxIdOrZero(security_logs, "log_id"),
             seen |-> Len(security_logs)])
    /\ UNCHANGED <<store, op, prev, budget, openai_client, conn>>

\* Mutant of UnlCreate: the unlock event is written over the lock entry.
UnlCreateOverLock(p) ==
    /\ pc[p] = "unl_create"
    /\ LET unlock_event == NewUnlockEvent(loc[p].max_log_id, op[p].customer_id)
           locks == {i \in 1..Len(security_logs) :
                        /\ security_logs[i].customer_id = op[p].customer_id
                        /\ security_logs[i].event_type = "account_locked"}
       IN IF locks = {}
          THEN /\ security_logs' = Append(security_logs, unlock_event)
               /\ Return(p, [message |-> "Account unlocked"])
          ELSE /\ security_logs' =
                     [security_logs EXCEPT ![CHOOSE i \in locks : TRUE] = unlock_event]
               /\ Return(p, [message |-> "Account unlocked"])
    /\ UNCHANGED <<catalog, products, subscriptions, invoices, payments,
                   service_incidents, support_tickets, op, prev, budget,
                   openai_client, conn>>

UnlCreate(p) ==
    /\ pc[p] = "unl_create"
    /\ LET unlock_event == NewUnlockEvent(loc[p].max_log_id, op[p].customer_id)
       IN IF CreateConflict(security_logs, unlock_event, "customer_id")
          THEN /\ Raise(p, "Conflict")
               /\ UNCHANGED security_logs
          ELSE /\ security_logs' = Append(security_logs, unlock_event)
               /\ Return(p, [message |-> "Account unlocked"])
    /\ UNCHANGED <<catalog, products, subscriptions, invoices, payments, service_incidents,
                   support_tickets, op, prev, budget, openai_client, conn>>


\* ------------------------------------------------ get_subscription_detail_async
\* SELECT * FROM c WHERE c.invoice_id = @invoice_id
QueryPayments(invoice_id) ==
    SelectSeq(payments, LAMBDA d : d.invoice_id = invoice_id)

\* SELECT * FROM c WHERE c.subscription_id = @subscription_id
QueryInvoices(subscription_id) ==
    SelectSeq(invoices, LAMBDA d : d.subscription_id = subscription_id)

\* Mutant of DetailTotalPaid: every payment counts, whatever its status.
DetailTotalPaidAnyStatus(pays) == SumAmount(pays)

\* sum(p["amount"] for p in payments if p["status"] == "successful")
DetailTotalPaid(pays) ==
    SumAmount(SelectSeq(pays, LAMBDA d : d.status = "successful"))

\* Mutant of EnrichInvoice: outstanding is not clamped at zero.
EnrichInvoiceUnclamped(invoice, pays) ==
    SetField(SetField(invoice, "payments", pays),
             "outstanding", invoice.amount - DetailTotalPaid(pays))

\* invoice["payments"] = payments
\* invoice["outstanding"] = max(invoice["amount"] - total_paid, 0.0)
EnrichInvoice(invoice, pays) ==
    SetField(SetField(invoice, "payments", pays),
             "outstanding", Max2(invoice.amount - DetailTotalPaid(pays), 0))

\* Mutant of EnrichSubscription: the four fields are set even without product.
EnrichSubscriptionAlways(subscription, found) ==
    SetField(SetField(SetField(SetField(subscription,
        "product_name", IF found = <<>> THEN Null ELSE found[1].name),
        "product_description", IF found = <<>> THEN Null ELSE found[1].description),
        "category", IF found = <<>> THEN Null ELSE found[1].category),
        "monthly_fee", IF found = <<>> THEN Null ELSE found[1].monthly_fee)

\* the product fields merged onto the subscription when the product exists
EnrichSubscription(subscription, found) ==
    IF found = <<>> THEN subscription
    ELSE SetField(SetField(SetField(SetField(subscription,
             "product_name", found[1].name),
             "product_description", found[1].description),
             "category", found[1].category),
             "monthly_fee", found[1].monthly_fee)

\* SELECT c.incident_id, c.incident_date, c.description, c.resolution_status ...
QueryIncidents(subscription_id) ==
    LET found == SelectSeq(service_incidents,
                           LAMBDA d : d.subscription_id = subscription_id)
    IN [i \in 1..Len(found) |->
          [incident_id |-> found[i].incident_id,
           incident_date |-> found[i].incident_date,
           description |-> found[i].description,
           resolution_status |-> found[i].resolution_status]]

CallGetSubscriptionDetail(p) ==
    /\ Free(p)
    /\ \E s \in SubscriptionIdInputs :
            Begin(p, [name |-> "get_subscription_detail", subscription_id |-> s],
                  "det_read_sub")

DetReadSub(p) ==
    /\ pc[p] = "det_read_sub"
    /\ LET found == QuerySubscription(op[p].subscription_id)
       IN IF found = <<>>
          THEN Raise(p, "Subscription not found")
          ELSE Goto(p, "det_read_product", [subscription |-> found[1]])
    /\ conn' = GetContainer(conn)
    /\ UNCHANGED <<store, op, prev, budget, openai_client>>

DetReadProduct(p) ==
    /\ pc[p] = "det_read_product"
    /\ LET found == SelectSeq(products,
                       LAMBDA d : d.product_id = loc[p].subscription.product_id)
       IN Goto(p, "det_read_invoices",
               [subscription |-> EnrichSubscription(loc[p].subscription, found)])
    /\ UNCHANGED <<store, op, prev, budget, openai_client, conn>>

DetReadInvoices(p) ==
    /\ pc[p] = "det_read_invoices"
    /\ LET found == QueryInvoices(op[p].subscription_id)
       IN Goto(p, IF found = <<>> THEN "det_read_incidents" ELSE "det_read_payments",
               [subscription |-> loc[p].subscription, invoices |-> found,
                enriched_invoices |-> <<>>])
    /\ UNCHANGED <<store, op, prev, budget, openai_client, conn>>

\* Mutant of DetReadPayments: the enriched invoice is written back to Invoices.
DetReadPaymentsPersisting(p) ==
    /\ pc[p] = "det_read_payments"
    /\ LET n == Len(loc[p].enriched_invoices) + 1
           invoice == loc[p].invoices[n]
           enriched_invoice == EnrichInvoice(invoice, QueryPayments(invoice.invoice_id))
           enriched == Append(loc[p].enriched_invoices, enriched_invoice)
       IN /\ Goto(p, IF n = Len(loc[p].invoices) THEN "det_read_incidents"
                     ELSE "det_read_payments",
                  [subscription |-> loc[p].subscription, invoices |-> loc[p].invoices,
                   enriched_invoices |-> enriched])
          /\ invoices' = [i \in 1..Len(invoices) |->
                            IF invoices[i].invoice_id = invoice.invoice_id
                            THEN enriched_invoice ELSE invoices[i]]
    /\ UNCHANGED <<catalog, products, subscriptions, payments, service_incidents,
                   security_logs, support_tickets, op, prev, budget, openai_client, conn>>

\* one turn of the loop over the invoices: the payments query and the enrichment
DetReadPayments(p) ==
    /\ pc[p] = "det_read_payments"
    /\ LET n == Len(loc[p].enriched_invoices) + 1
           invoice == loc[p].invoices[n]
           enriched == Append(loc[p].enriched_invoices,
                              EnrichInvoice(invoice, QueryPayments(invoice.invoice_id)))
       IN Goto(p, IF n = Len(loc[p].invoices) THEN "det_read_incidents"
                  ELSE "det_read_payments",
               [subscription |-> loc[p].subscription, invoices |-> loc[p].invoices,
                enriched_invoices |-> enriched])
    /\ UNCHANGED <<store, op, prev, budget, openai_client, conn>>

DetReadIncidents(p) ==
    /\ pc[p] = "det_read_incidents"
    /\ Return(p, SetField(SetField(loc[p].subscription,
                     "invoices", loc[p].enriched_invoices),
                     "service_incidents", QueryIncidents(op[p].subscription_id)))
    /\ UNCHANGED <<store, op, prev, budget, openai_client, conn>>

\* ---------------------------------------------------- get_billing_summary_async
\* Mutant of BillingOutstanding: the status filter of the payments query is
\* dropped, payments of every status count as paid.
BillingOutstandingAnyStatus(invoice) ==
    Max2(invoice.amount - SumAmount(QueryPayments(invoice.invoice_id)), 0)

\* Mutant of BillingOutstanding: no clamp at zero.
BillingOutstandingUnclamped(invoice) ==
    invoice.amount - SumAmount(QuerySuccessfulPayments(invoice.invoice_id))

\* paid = sum(p["amount"] for p in payments)
\* outstanding = max(invoice["amount"] - paid, 0.0)
BillingOutstanding(invoice) ==
    Max2(invoice.amount - SumAmount(QuerySuccessfulPayments(invoice.invoice_id)), 0)

RECURSIVE SumOutstanding(_)
\* sum(item["outstanding"] for item in outstanding_list)
SumOutstanding(list) ==
    IF list = <<>> THEN 0
    ELSE SumOutstanding(SubSeq(list, 1, Len(list) - 1)) + list[Len(list)].outstanding

\* return {"customer_id": ..., "total_due": ..., "invoices": outstanding_list}
BillingResult(customer_id, outstanding_list) ==
    [customer_id |-> customer_id, total_due |-> SumOutstanding(outstanding_list),
     invoices |-> outstanding_list]

CallGetBillingSummary(p) ==
    /\ Free(p)
    /\ \E c \in CustomerIdInputs :
            Begin(p, [name |-> "get_billing_summary", customer_id |-> c], "bil_read_subs")

BilReadSubs(p) ==
    /\ pc[p] = "bil_read_subs"
    /\ LET found == SelectSeq(subscriptions,
                              LAMBDA d : d.customer_id = op[p].customer_id)
           subscription_ids == [i \in 1..Len(found) |-> found[i].subscription_id]
       IN IF found = <<>>
          THEN Return(p, [customer_id |-> op[p].customer_id, total_due |-> 0,
                          invoices |-> <<>>])
          ELSE Goto(p, "bil_read_invoices",
                    [subscription_ids |-> subscription_ids, si |-> 1,
                     invoices |-> <<>>, ii |-> 0, outstanding_list |-> <<>>])
    /\ conn' = GetContainer(conn)
    /\ UNCHANGED <<store, op, prev, budget, openai_client>>

\* one turn of the outer loop: the invoices of subscription_ids[si]
BilReadInvoices(p) ==
    /\ pc[p] = "bil_read_invoices"
    /\ LET l == loc[p]
           found == QueryInvoices(l.subscription_ids[l.si])
       IN IF found # <<>>
          THEN Goto(p, "bil_read_payments", [l EXCEPT !.invoices = found, !.ii = 1])
          ELSE IF l.si < Len(l.subscription_ids)
          THEN Goto(p, "bil_read_invoices", [l EXCEPT !.si = l.si + 1])
          ELSE Return(p, BillingResult(op[p].customer_id, l.outstanding_list))
    /\ UNCHANGED <<store, op, prev, budget, openai_client, conn>>

\* one turn of the inner loop: the successful payments of invoices[ii]
BilReadPayments(p) ==
    /\ pc[p] = "bil_read_payments"
    /\ LET l == loc[p]
           invoice == l.invoices[l.ii]
           list == Append(l.outstanding_list,
                          [invoice_id |-> invoice.invoice_id,
                           outstanding |-> BillingOutstanding(invoice)])
       IN IF l.ii < Len(l.invoices)
          THEN Goto(p, "bil_read_payments",
                    [l EXCEPT !.outstanding_list = list, !.ii = l.ii + 1])
          ELSE IF l.si < Len(l.subscription_ids)
          THEN Goto(p, "bil_read_invoices",
                    [l EXCEPT !.outstanding_list = list, !.si = l.si + 1])
          ELSE Return(p, BillingResult(op[p].customer_id, list))
    /\ UNCHANGED <<store, op, prev, budget, openai_client, conn>>

\* ------------------------------------------------------ ORDER BY in a query
\* The results of a query with ORDER BY: the documents found, in any order
\* that respects the sort key (documents with equal keys come in either order).
\* may_precede holds the pairs <<i, j>> with found[i] not after found[j].
OrderedResults(found, may_precede) ==
    { [i \in 1..Len(found) |-> found[f[i]]] : f \in
        { g \in Permutations(1..Len(found)) :
            \A i, j \in 1..Len(found) :
                i < j => << g[i], g[j] >> \in may_precede } }

\* --------------------------------------------------- get_customer_detail_async
\* SELECT * FROM c WHERE c.customer_id = @customer_id (Customers)
QueryCustomer(customer_id) ==
    SelectSeq(customers, LAMBDA d : d.customer_id = customer_id)

\* SELECT * FROM c WHERE c.customer_id = @customer_id (Subscriptions)
QuerySubscriptionsOfCustomer(customer_id) ==
    SelectSeq(subscriptions, LAMBDA d : d.customer_id = customer_id)

CallGetCustomerDetail(p) ==
    /\ Free(p)
    /\ \E c \in CustomerLookupInputs :
            Begin(p, [name |-> "get_customer_detail", customer_id |-> c],
                  "cus_read_customer")

\* Mutant of CusReadCustomer: an unknown customer yields an empty record.
CusReadCustomerLenient(p) ==
    /\ pc[p] = "cus_read_customer"
    /\ LET found == QueryCustomer(op[p].customer_id)
       IN Goto(p, "cus_read_subscriptions",
               [customer |-> IF found = <<>>
                             THEN [customer_id |-> op[p].customer_id]
                             ELSE found[1]])
    /\ conn' = GetContainer(conn)
    /\ UNCHANGED <<store, op, prev, budget, openai_client>>

CusReadCustomer(p) ==
    /\ pc[p] = "cus_read_customer"
    /\ LET found == QueryCustomer(op[p].customer_id)
       IN IF found = <<>>
          THEN Raise(p, "Customer {customer_id} not found")
          ELSE Goto(p, "cus_read_subscriptions", [customer |-> found[1]])
    /\ conn' = GetContainer(conn)
    /\ UNCHANGED <<store, op, prev, budget, openai_client>>

\* customer['subscriptions'] = subscriptions; return customer
CusReadSubscriptions(p) ==
    /\ pc[p] = "cus_read_subscriptions"
    /\ Return(p, SetField(loc[p].customer, "subscriptions",
                          QuerySubscriptionsOfCustomer(op[p].customer_id)))
    /\ UNCHANGED <<store, op, prev, budget, openai_client, conn>>

\* --------------------------------------------------- get_customer_orders_async
\* SELECT * FROM c WHERE c.customer_id = @customer_id ORDER BY c.order_date DESC
QueryOrders(customer_id) ==
    LET found == SelectSeq(orders, LAMBDA d : d.customer_id = customer_id)
    IN OrderedResults(found,
           {ij \in (1..Len(found)) \X (1..Len(found)) :
               found[ij[1]].order_date >= found[ij[2]].order_date})

\* Mutant of OrderEntry: an order of a product that is gone has no name.
OrderEntryNoFallback(order, found) ==
    [order_id |-> order.order_id, order_date |-> order.order_date,
     product_name |-> IF found # <<>> THEN found[1].name ELSE Null,
     amount |-> order.amount, order_status |-> order.order_status]

\* product_name = products[0]["name"] if products else "Unknown"
OrderEntry(order, found) ==
    [order_id |-> order.order_id, order_date |-> order.order_date,
     product_name |-> IF found # <<>> THEN found[1].name ELSE "Unknown",
     amount |-> order.amount, order_status |-> order.order_status]

CallGetCustomerOrders(p) ==
    /\ Free(p)
    /\ \E c \in CustomerLookupInputs :
            Begin(p, [name |-> "get_customer_orders", customer_id |-> c],
                  "ord_read_orders")

OrdReadOrders(p) ==
    /\ pc[p] = "ord_read_orders"
    /\ \E found \in QueryOrders(op[p].customer_id) :
          IF found = <<>>
          THEN Return(p, <<>>)
          ELSE Goto(p, "ord_read_product", [orders |-> found, result |-> <<>>])
    /\ conn' = GetContainer(conn)
    /\ UNCHANGED <<store, op, prev, budget, openai_client>>

\* one turn of the loop: the product of the next order
OrdReadProduct(p) ==
    /\ pc[p] = "ord_read_product"
    /\ LET n == Len(loc[p].result) + 1
           order == loc[p].orders[n]
           found == SelectSeq(products, LAMBDA d : d.product_id = order.product_id)
           result == Append(loc[p].result, OrderEntry(order, found))
       IN IF n = Len(loc[p].orders)
          THEN Return(p, result)
          ELSE Goto(p, "ord_read_product",
                    [orders |-> loc[p].orders, result |-> result])
    /\ UNCHANGED <<store, op, prev, budget, openai_client, conn>>

\* ----------------------------------------------- get_eligible_promotions_async
\* promo.get("eligibility_criteria", "") or ""
Criteria(promo) ==
    IF "eligibility_criteria" \in DOMAIN promo THEN promo.eligibility_criteria
    ELSE << >>

\* part in text
Contains(text, part) ==
    \E i \in 0..(Len(text) - Len(part)) : SubSeq(text, i + 1, i + Len(part)) = part

\* Mutant of Eligible: only the promotions naming the customer's level.
EligibleByLevelOnly(promo, loyalty) ==
    Contains(Criteria(promo), LoyaltyIs(loyalty))

\* f"loyalty_level = '{loyalty}'" in crit or "loyalty_level" not in crit
Eligible(promo, loyalty) ==
    \/ Contains(Criteria(promo), LoyaltyIs(loyalty))
    \/ ~Contains(Criteria(promo), << "loyalty_level" >>)

\* SELECT * FROM c WHERE c.start_date <= @today AND c.end_date >= @today
QueryActivePromotions(today) ==
    SelectSeq(promotions, LAMBDA d : d.start_date <= today /\ d.end_date >= today)

CallGetEligiblePromotions(p) ==
    /\ Free(p)
    /\ \E c \in CustomerLookupInputs :
            Begin(p, [name |-> "get_eligible_promotions", customer_id |-> c],
                  "pro_read_customer")

\* Mutant of ProReadCustomer: an unknown customer is given no loyalty level.
ProReadCustomerLenient(p) ==
    /\ pc[p] = "pro_read_customer"
    /\ LET found == QueryCustomer(op[p].customer_id)
       IN \E today \in TodayInputs :
            Goto(p, "pro_read_promotions",
                 [loyalty |-> IF found = <<>> THEN "" ELSE found[1].loyalty_level,
                  today |-> today])
    /\ conn' = GetContainer(conn)
    /\ UNCHANGED <<store, op, prev, budget, openai_client>>

ProReadCustomer(p) ==
    /\ pc[p] = "pro_read_customer"
    /\ LET found == QueryCustomer(op[p].customer_id)
       IN IF found = <<>>
          THEN Raise(p, "Customer not found")
          ELSE \E today \in TodayInputs :
                  Goto(p, "pro_read_promotions",
                       [loyalty |-> found[1].loyalty_level, today |-> today])
    /\ conn' = GetContainer(conn)
    /\ UNCHANGED <<store, op, prev, budget, openai_client>>

ProReadPromotions(p) ==
    /\ pc[p] = "pro_read_promotions"
    /\ Return(p, SelectSeq(QueryActivePromotions(loc[p].today),
                           LAMBDA d : Eligible(d, loc[p].loyalty)))
    /\ UNCHANGED <<store, op, prev, budget, openai_client, conn>>

\* ------------------------------------------------- search_knowledge_base_async
\* What the embedding service answers for a text.
Embed(text) ==
    IF text = "billing" THEN << 1, 0 >>
    ELSE IF text = "roaming" THEN << 1, 2 >>
    ELSE << -1, 1 >>

Dot(a, b) == a[1] * b[1] + a[2] * b[2]
SquaredNorm(a) == IF Dot(a, a) = 0 THEN 1 ELSE Dot(a, a)

\* VectorDistance(a, q) <= VectorDistance(b, q) under the container's cosine
\* policy: a is at least as similar to q as b is. With a zero vector the
\* similarity is 0 for every document.
NotFarther(a, b, q) ==
    LET da == Dot(a, q)
        db == Dot(b, q)
    IN IF da >= 0 /\ db < 0 THEN TRUE
       ELSE IF da < 0 /\ db >= 0 THEN FALSE
       ELSE IF da >= 0
       THEN da * da * SquaredNorm(b) >= db * db * SquaredNorm(a)
       ELSE da * da * SquaredNorm(b) <= db * db * SquaredNorm(a)

\* Mutant of TopResults: the default top_k = 5 of execute_vector_search.
TopResultsDefault(ordered, top_k) ==
    SubSeq(ordered, 1, IF 5 < Len(ordered) THEN 5 ELSE Len(ordered))

\* SELECT TOP @top_k
TopResults(ordered, top_k) ==
    SubSeq(ordered, 1, IF top_k < Len(ordered) THEN top_k ELSE Len(ordered))

\* SELECT TOP @top_k c.id, c.title, c.doc_type, c.content FROM c
\*   ORDER BY VectorDistance(c.content_vector, @embedding)
ExecuteVectorSearch(query_embedding, top_k) ==
    { [i \in 1..Len(TopResults(ordered, top_k)) |->
         [id |-> ordered[i].id, title |-> ordered[i].title,
          doc_type |-> ordered[i].doc_type, content |-> ordered[i].content]] :
      ordered \in OrderedResults(knowledge_documents,
          {ij \in (1..Len(knowledge_documents)) \X (1..Len(knowledge_documents)) :
              NotFarther(knowledge_documents[ij[1]].content_vector,
                         knowledge_documents[ij[2]].content_vector,
                         query_embedding)}) }

CallSearchKnowledgeBase(p) ==
    /\ Free(p)
    /\ \E q \in QueryInputs, k \in TopKInputs :
            Begin(p, [name |-> "search_knowledge_base", query |-> q, topk |-> k],
                  "kb_embed")

\* get_embedding: the fallback defined when the try block at import failed
\* returns zeros; the one defined when it succeeded calls the service, and an
\* error of that call is not caught.
KbEmbed(p) ==
    /\ pc[p] = "kb_embed"
    /\ IF openai_client = "missing"
       THEN Goto(p, "kb_search", [query_emb |-> ZeroVector, service |-> "not imported"])
       ELSE \E available \in BOOLEAN :
               IF available
               THEN Goto(p, "kb_search", [query_emb |-> Embed(op[p].query),
                                          service |-> "available"])
               ELSE /\ ret' = [ret EXCEPT ![p] = [status |-> "error",
                                                   error |-> "embedding request failed"]]
                    /\ pc' = [pc EXCEPT ![p] = "done"]
                    /\ loc' = [loc EXCEPT ![p] = [service |-> "unavailable"]]
    /\ UNCHANGED <<store, op, prev, budget, openai_client, conn>>

\* return [{"title": ..., "doc_type": ..., "content": ...} for r in results]
KbSearch(p) ==
    /\ pc[p] = "kb_search"
    /\ \E results \in ExecuteVectorSearch(loc[p].query_emb, op[p].topk) :
          Return(p, [i \in 1..Len(results) |->
                        [title |-> results[i].title,
                         doc_type |-> results[i].doc_type,
                         content |-> results[i].content]])
    /\ conn' = GetContainer(conn)
    /\ UNCHANGED <<store, op, prev, budget, openai_client>>

\* ----------------------------------------------------------- specifications
Step(p) ==
    \/ CallPayInvoice(p)
    \/ PayReadInvoice(p)
    \/ PayReadPayments(p)
    \/ PayReadMax(p)
    \/ PayCreate(p)
    \/ CallUpdateSubscription(p)
    \/ UpdRead(p)
    \/ UpdReplace(p)
    \/ CallCreateSupportTicket(p)
    \/ TktReadMax(p)
    \/ TktCreate(p)
    \/ CallUnlockAccount(p)
    \/ UnlReadLock(p)
    \/ UnlReadMax(p)
    \/ UnlCreate(p)
    \/ CallGetSubscriptionDetail(p)
    \/ DetReadSub(p)
    \/ DetReadProduct(p)
    \/ DetReadInvoices(p)
    \/ DetReadPayments(p)
    \/ DetReadIncidents(p)
    \/ CallGetBillingSummary(p)
    \/ BilReadSubs(p)
    \/ BilReadInvoices(p)
    \/ BilReadPayments(p)

\* Requests run concurrently: any worker takes the next step. The workers are
\* interchangeable, so they are put to use in the order of their numbers: a
\* worker steps once every worker before it has taken a call.
Next == \E p \in Procs : (\A q \in 1..(p - 1) : op[q] # NoOp) /\ Step(p)
Spec == Init /\ [][Next]_vars

\* Requests run one at a time: a single worker.
SeqNext == Step(1)
SeqSpec == SeqInit /\ [][SeqNext]_vars


\* ======================================================================
\* Properties
\* ======================================================================
\* The read-only requests, run one at a time over a store whose promotions and
\* knowledge base vary, with the embedding client built at import or not.
QueryInit ==
    /\ products = SeedProducts
    /\ subscriptions = SeedSubscriptions
    /\ invoices = SeedInvoices
    /\ service_incidents = SeedServiceIncidents
    /\ payments = SeedPayments
    /\ security_logs = SeedSecurityLogs
    /\ support_tickets = SeedSupportTickets
    /\ customers = SeedCustomers
    /\ orders = SeedOrders
    /\ promotions \in {<< >>, SeedPromotions, SeedPromotions \o MorePromotions}
    /\ \E count \in 0..MaxDocs, embedded \in BOOLEAN :
          knowledge_documents = SeedKnowledgeDocuments(count, embedded)
    /\ conn = NoConnection
    /\ openai_client \in {"built", "missing"}
    /\ InitRequests
    /\ budget = MaxQueries

QueryStep(p) ==
    \/ CallGetCustomerDetail(p)
    \/ CusReadCustomer(p)
    \/ CusReadSubscriptions(p)
    \/ CallGetCustomerOrders(p)
    \/ OrdReadOrders(p)
    \/ OrdReadProduct(p)
    \/ CallGetEligiblePromotions(p)
    \/ ProReadCustomer(p)
    \/ ProReadPromotions(p)
    \/ CallSearchKnowledgeBase(p)
    \/ KbEmbed(p)
    \/ KbSearch(p)

QueryNext == QueryStep(1)
QuerySpec == QueryInit /\ [][QueryNext]_vars

\* A composite read racing with payments: worker 1 reads (a billing summary or
\* a subscription detail), worker 2 pays invoices, MaxRaceOps calls in all.
RaceInit == InitStore /\ budget = MaxRaceOps

Reader(p) ==
    \/ CallGetBillingSummary(p)
    \/ BilReadSubs(p)
    \/ BilReadInvoices(p)
    \/ BilReadPayments(p)
    \/ CallGetSubscriptionDetail(p)
    \/ DetReadSub(p)
    \/ DetReadProduct(p)
    \/ DetReadInvoices(p)
    \/ DetReadPayments(p)
    \/ DetReadIncidents(p)

Payer(p) ==
    \/ CallPayInvoice(p)
    \/ PayReadInvoice(p)
    \/ PayReadPayments(p)
    \/ PayReadMax(p)
    \/ PayCreate(p)

RaceNext == Reader(1) \/ Payer(2)
RaceSpec == RaceInit /\ [][RaceNext]_vars

\* --------------------------------------------------------- a query that fails
\* container.query_items(...) raises (the store is unreachable, throttles, or
\* rejects the query): no operation catches the exception, which leaves the
\* coroutine at once. The get_container calls at the top of the operation, and
\* the checks of the payload in update_subscription_async, have run before its
\* first query.
QueryLabels ==
    {"pay_read_invoice", "pay_read_payments", "pay_read_max",
     "upd_read", "tkt_read_max", "unl_read_lock", "unl_read_max",
     "det_read_sub", "det_read_product", "det_read_invoices", "det_read_payments",
     "det_read_incidents", "bil_read_subs", "bil_read_invoices", "bil_read_payments",
     "cus_read_customer", "cus_read_subscriptions", "ord_read_orders",
     "ord_read_product", "pro_read_customer", "pro_read_promotions", "kb_search"}

FirstQueryLabels ==
    {"pay_read_invoice", "upd_read", "tkt_read_max", "unl_read_lock", "det_read_sub",
     "bil_read_subs", "cus_read_customer", "ord_read_orders", "pro_read_customer",
     "kb_search"}

QueryFails(p) ==
    /\ pc[p] \in QueryLabels
    /\ pc[p] = "upd_read" => UpdateData(op[p].updates) # <<>>
    /\ Raise(p, "CosmosHttpResponseError")
    /\ conn' = IF pc[p] \in FirstQueryLabels THEN GetContainer(conn) ELSE conn
    /\ UNCHANGED <<store, op, prev, budget, openai_client>>

\* Requests run one at a time, every operation of the module among them, and
\* any query may fail.
FaultInit == InitStore /\ budget = MaxFaultOps
FaultNext == Step(1) \/ QueryStep(1) \/ QueryFails(1)
FaultSpec == FaultInit /\ [][FaultNext]_vars

\* ------------------------------------------------- the store of Scenario 1
\* "Invoice Higher Than Usual": a Silver customer with one subscription of the
\* Contoso Internet Plan, a prior invoice of 60.00, an overage invoice of
\* 150.00 and one payment of 50.00 on the latter, recorded with status
\* "partial". The counters are taken from 1; the customer is customer 2.
Scenario1Subscriptions == << SeedSubscription(1, 2, 1) >>
Scenario1Invoices == << SeedInvoice(1, 1, 60), SeedInvoice(2, 1, 150) >>
Scenario1Payments == << SeedPayment(1, 2, 50, "partial") >>

\* Requests run one at a time over the store of Scenario 1.
ScenarioInit ==
    /\ products = SeedProducts
    /\ subscriptions = Scenario1Subscriptions
    /\ invoices = Scenario1Invoices
    /\ payments = Scenario1Payments
    /\ service_incidents = SeedServiceIncidents
    /\ security_logs = SeedSecurityLogs
    /\ support_tickets = SeedSupportTickets
    /\ customers = SeedCustomers
    /\ promotions = SeedPromotions
    /\ orders = SeedOrders
    /\ knowledge_documents = SeedKnowledgeDocuments(MaxDocs, TRUE)
    /\ openai_client = "built"
    /\ conn = NoConnection
    /\ InitRequests
    /\ budget = MaxOps

ScenarioNext == Step(1)
ScenarioSpec == ScenarioInit /\ [][ScenarioNext]_vars

\* What the ledger says, stated over the sets of documents and not over the
\* code's queries and folds.
SuccessfulPaymentsOf(invoice_id) ==
    {i \in 1..Len(payments) : /\ payments[i].invoice_id = invoice_id
                              /\ payments[i].status = "successful"}

RECURSIVE LedgerAmount(_)
LedgerAmount(S) ==
    IF S = {} THEN 0
    ELSE LET i == CHOOSE x \in S : TRUE
         IN payments[i].amount + LedgerAmount(S \ {i})

\* max(amount - S, 0), S the successful payments of the invoice
Owed(invoice) ==
    LET d == invoice.amount - LedgerAmount(SuccessfulPaymentsOf(invoice.invoice_id))
    IN IF d > 0 THEN d ELSE 0

InvoicesOfSubscription(subscription_id) ==
    {i \in 1..Len(invoices) : invoices[i].subscription_id = subscription_id}

InvoicesOfCustomer(customer_id) ==
    {i \in 1..Len(invoices) :
        \E j \in 1..Len(subscriptions) :
            /\ subscriptions[j].customer_id = customer_id
            /\ subscriptions[j].subscription_id = invoices[i].subscription_id}

RECURSIVE TotalOwed(_)
TotalOwed(S) ==
    IF S = {} THEN 0
    ELSE LET i == CHOOSE x \in S : TRUE
         IN Owed(invoices[i]) + TotalOwed(S \ {i})

Completed(p, name) == pc[p] = "done" /\ op[p].name = name
Succeeded(p, name) == Completed(p, name) /\ ret[p].status = "ok"

C2_BillingTotal ==
    \A p \in Procs :
        Completed(p, "get_billing_summary") =>
            LET mine == InvoicesOfCustomer(op[p].customer_id)
                r == ret[p].value
            IN /\ ret[p].status = "ok"
               /\ r.customer_id = op[p].customer_id
               /\ r.total_due = TotalOwed(mine)
               /\ Len(r.invoices) = Cardinality(mine)
               /\ \A i \in mine :
                    \E k \in 1..Len(r.invoices) :
                        /\ r.invoices[k].invoice_id = invoices[i].invoice_id
                        /\ r.invoices[k].outstanding = Owed(invoices[i])
               /\ (\A j \in 1..Len(subscriptions) :
                       subscriptions[j].customer_id # op[p].customer_id)
                    => r.total_due = 0 /\ r.invoices = <<>>

\* C2 witness: customer 1 over the seeded ledger owes 100 + 100 + 0.
C2_Witness ==
    \E p \in Procs :
        /\ Succeeded(p, "get_billing_summary")
        /\ op[p].customer_id = 1
        /\ payments # <<>>
        /\ ret[p].value.total_due = 200
        /\ Len(ret[p].value.invoices) = 3

\* The allocating requests: where they stand between the read of the maximum
\* and the create, the collection they allocate in, and the identifier they
\* have computed.
Allocating(p) == pc[p] \in {"pay_create", "tkt_create", "unl_create"}
AllocCollection(p) ==
    IF op[p].name = "pay_invoice" THEN payments
    ELSE IF op[p].name = "create_support_ticket" THEN support_tickets
    ELSE security_logs
AllocField(p) ==
    IF op[p].name = "pay_invoice" THEN "payment_id"
    ELSE IF op[p].name = "create_support_ticket" THEN "ticket_id"
    ELSE "log_id"
AllocPartition(p) ==
    IF op[p].name = "pay_invoice" THEN op[p].invoice_id ELSE op[p].customer_id
Allocated(p) ==
    IF op[p].name = "pay_invoice" THEN loc[p].max_payment_id + 1
    ELSE IF op[p].name = "create_support_ticket" THEN loc[p].max_ticket_id + 1
    ELSE loc[p].max_log_id + 1

\* n is 1 for an empty collection, and otherwise one more than an identifier
\* of the collection that no other identifier exceeds.
IsNextId(n, coll, field) ==
    /\ \A i \in 1..Len(coll) : coll[i][field] < n
    /\ \/ coll = <<>> /\ n = 1
       \/ \E i \in 1..Len(coll) : coll[i][field] = n - 1

C3_AllocatedInv ==
    /\ \A p \in Procs :
          Allocating(p) /\ loc[p].seen = Len(AllocCollection(p)) =>
              IsNextId(Allocated(p), AllocCollection(p), AllocField(p))
    /\ \A p, q \in Procs :
          /\ Allocating(p) /\ Allocating(q) /\ pc[p] = pc[q]
          /\ loc[p].seen = loc[q].seen
          => Allocated(p) = Allocated(q)

C3_AllocationReadsOnly ==
    \A p \in Procs :
        pc[p] \in {"pay_read_max", "tkt_read_max", "unl_read_max"} /\ pc'[p] # pc[p]
            => UNCHANGED store

\* C3: the identifier allocated for a payment, a security-log entry or a support
\* ticket is 1 for an empty collection and the current maximum + 1 otherwise;
\* the allocation step writes nothing, and two allocations with no insert
\* between them yield the same identifier.
C3_Allocator == []C3_AllocatedInv /\ [][C3_AllocationReadsOnly]_vars

\* C3 witness: two payments being recorded on an empty ledger, both allocated
\* identifier 1 and neither yet created.
C3_Witness ==
    /\ payments = <<>>
    /\ pc[1] = "pay_create" /\ pc[2] = "pay_create"
    /\ Allocated(1) = 1 /\ Allocated(2) = 1


\* A completed allocating request that got as far as reading the maximum.
AllocDone(p) ==
    /\ pc[p] = "done"
    /\ op[p].name \in {"pay_invoice", "create_support_ticket", "unlock_account"}
    /\ "seen" \in DOMAIN loc[p]
AllocPartitionField(p) ==
    IF op[p].name = "pay_invoice" THEN "invoice_id" ELSE "customer_id"
AllocPrefix(p) ==
    IF op[p].name = "pay_invoice" THEN "payment_"
    ELSE IF op[p].name = "create_support_ticket" THEN "ticket_"
    ELSE "security_log_"

\* Two completed requests allocating in the same collection that both read the
\* maximum before either created its record (they read the same version of the
\* collection, which only grows).
ReadSameMaximum(p, q) ==
    /\ p # q /\ AllocDone(p) /\ AllocDone(q)
    /\ op[p].name = op[q].name
    /\ loc[p].seen = loc[q].seen

\* Two records of the collection carry the same identifier.
DuplicateIdentifier(coll, field) ==
    \E i, j \in 1..Len(coll) : i # j /\ coll[i][field] = coll[j][field]

\* The records of p's collection with p's identifier in p's partition.
RecordsOf(p) ==
    {i \in 1..Len(AllocCollection(p)) :
        /\ AllocCollection(p)[i].id = DocId(AllocPrefix(p), Allocated(p))
        /\ AllocCollection(p)[i][AllocField(p)] = Allocated(p)
        /\ AllocCollection(p)[i][AllocPartitionField(p)] = AllocPartition(p)}

\* C4 as stated: whenever both read the maximum before either created, the
\* collection ends with two records carrying the same identifier.
C4_Original ==
    \A p, q \in Procs :
        ReadSameMaximum(p, q) =>
            DuplicateIdentifier(AllocCollection(p), AllocField(p))

\* C4, amended: both compute the same identifier. When their records fall in
\* different partitions (invoice_id for payments, customer_id for tickets and
\* security-log entries) both are stored and the identifier is no longer
\* unique in the collection; when they fall in the same partition the store
\* rejects the second create (same id, same partition), that request fails and
\* a single record is stored.
C4_SameIdentifier ==
    \A p, q \in Procs :
        ReadSameMaximum(p, q) =>
            /\ Allocated(p) = Allocated(q)
            /\ Cardinality(RecordsOf(p)) = 1
            /\ Cardinality(RecordsOf(q)) = 1
            /\ ret[p].status = "ok" \/ ret[p] = [status |-> "error", error |-> "Conflict"]
            /\ AllocPartition(p) # AllocPartition(q) =>
                  DuplicateIdentifier(AllocCollection(p), AllocField(p))
            /\ AllocPartition(p) = AllocPartition(q) =>
                  /\ RecordsOf(p) = RecordsOf(q)
                  /\ ~(ret[p].status = "ok" /\ ret[q].status = "ok")

\* C4 witness: two payments recorded concurrently on different invoices, both
\* successful, both with the same payment_id.
C4_Witness ==
    /\ ReadSameMaximum(1, 2)
    /\ op[1].name = "pay_invoice"
    /\ ret[1].status = "ok" /\ ret[2].status = "ok"
    /\ DuplicateIdentifier(payments, "payment_id")

\* The keys of a payload, and those supplied with a value.
KeysOf(updates) == {updates[n].k : n \in 1..Len(updates)}
SuppliedKeys(updates) ==
    {updates[n].k : n \in {m \in 1..Len(updates) : ~updates[m].none}}
SuppliedValue(updates, k) ==
    updates[CHOOSE n \in 1..Len(updates) : updates[n].k = k /\ ~updates[n].none].v

\* The field k of a document is as it is in the document read.
AsRead(doc, read, k) ==
    IF k \in DOMAIN read THEN k \in DOMAIN doc /\ doc[k] = read[k]
    ELSE k \notin DOMAIN doc

\* q is about to replace a subscription that p, having read the same document
\* as q, has already replaced, the two payloads naming disjoint fields.
OverwritesAfter(p, q) ==
    /\ p # q
    /\ Completed(p, "update_subscription") /\ "subscription" \in DOMAIN loc[p]
    /\ op[q].name = "update_subscription" /\ pc[q] = "upd_replace"
    /\ op[p].subscription_id = op[q].subscription_id
    /\ loc[p].subscription = loc[q].subscription
    /\ KeysOf(op[p].updates) \cap KeysOf(op[q].updates) = {}

\* C5: when two updates of one subscription with disjoint fields both read the
\* document before either replaces it, the later replace succeeds, as the
\* earlier one did, and leaves the later writer's fields changed and the
\* earlier writer's fields as they were read: the earlier change is lost.
C5_LastWriteWins ==
    [][\A p, q \in Procs :
         OverwritesAfter(p, q) /\ pc'[q] = "done" =>
            /\ ret[p].status = "ok" /\ ret'[p].status = "ok" /\ ret'[q].status = "ok"
            /\ \E t \in 1..Len(subscriptions') :
                 /\ subscriptions'[t].id = loc[q].subscription.id
                 /\ \A k \in SuppliedKeys(op[q].updates) :
                      subscriptions'[t][k] = SuppliedValue(op[q].updates, k)
                 /\ \A k \in SuppliedKeys(op[p].updates) :
                      AsRead(subscriptions'[t], loc[q].subscription, k)]_vars

\* C5 witness: status := suspended and service_status := slow raced on
\* subscription 1; both succeeded and the status is still active.
C5_Witness ==
    \E p, q \in Procs :
        /\ p # q
        /\ Succeeded(p, "update_subscription") /\ Succeeded(q, "update_subscription")
        /\ op[p].subscription_id = 1 /\ op[q].subscription_id = 1
        /\ op[p].updates = << Item("status", "suspended") >>
        /\ op[q].updates = << Item("service_status", "slow") >>
        /\ loc[p].subscription = loc[q].subscription
        /\ subscriptions[1].status = "active"
        /\ subscriptions[1].service_status = "slow"


\* The step in which worker p's update_subscription replaces the document.
ReplaceStep(p) ==
    /\ op[p].name = "update_subscription"
    /\ pc[p] = "upd_replace" /\ pc'[p] = "done" /\ ret'[p].status = "ok"

\* A step of worker p inside a call named name, or the step taking that call.
StepOf(p, name) ==
    /\ op'[p].name = name
    /\ pc'[p] # pc[p] \/ op'[p] # op[p]

\* C6: run alone, the replace of a successful update changes one document, the
\* subscription asked for: its fields supplied with a value take that value,
\* every other field of it (those supplied as null included) is as before, no
\* field disappears; every other document of every collection is unchanged;
\* updated_fields names exactly the fields supplied with a value. No other
\* step of the call writes.
C6_ReplaceFrame ==
    \A p \in Procs :
        /\ StepOf(p, "update_subscription") /\ ~ReplaceStep(p) => UNCHANGED store
        /\ ReplaceStep(p) =>
            LET u == op[p].updates
                f == ret'[p].value.updated_fields
            IN /\ UNCHANGED <<catalog, products, invoices, payments, service_incidents,
                              security_logs, support_tickets>>
               /\ Len(subscriptions') = Len(subscriptions)
               /\ \E t \in 1..Len(subscriptions) :
                    /\ subscriptions[t].subscription_id = op[p].subscription_id
                    /\ \A i \in 1..Len(subscriptions) :
                          i # t => subscriptions'[i] = subscriptions[i]
                    /\ DOMAIN subscriptions'[t] =
                          DOMAIN subscriptions[t] \cup SuppliedKeys(u)
                    /\ \A k \in SuppliedKeys(u) :
                          subscriptions'[t][k] = SuppliedValue(u, k)
                    /\ \A k \in DOMAIN subscriptions[t] \ SuppliedKeys(u) :
                          subscriptions'[t][k] = subscriptions[t][k]
               /\ {f[n] : n \in 1..Len(f)} = SuppliedKeys(u)
               /\ Len(f) = Cardinality(SuppliedKeys(u))
               /\ ret'[p].value.subscription_id = op[p].subscription_id

C6_UpdateSetsSuppliedFields == [][C6_ReplaceFrame]_vars

\* C6 witness: status := cancelled with service_status supplied as null, on
\* subscription 1: the status changed, the service status did not, and
\* updated_fields is the status alone.
C6_Witness ==
    \E p \in Procs :
        /\ Succeeded(p, "update_subscription")
        /\ op[p].subscription_id = 1
        /\ op[p].updates = << Item("status", "cancelled"), NoneItem("service_status") >>
        /\ ret[p].value.updated_fields = << "status" >>
        /\ subscriptions[1].status = "cancelled"
        /\ subscriptions[1].service_status = loc[p].subscription.service_status
        /\ loc[p].subscription.status = "active"

\* The two failures of update_subscription_async, both a ValueError:
\* an invalid payload (lines 302 and 306) and an unknown subscription (320).
InvalidInput == {"No fields supplied", "No valid fields to update"}
SubscriptionNotFound == "Subscription not found"

C7_Errors ==
    \A p \in Procs :
        Completed(p, "update_subscription") =>
            /\ SuppliedKeys(op[p].updates) = {} =>
                  ret[p].status = "error" /\ ret[p].error \in InvalidInput
            /\ ( /\ SuppliedKeys(op[p].updates) # {}
                 /\ \A i \in 1..Len(subscriptions) :
                       subscriptions[i].subscription_id # op[p].subscription_id )
                  => ret[p].status = "error" /\ ret[p].error = SubscriptionNotFound

C7_Frame ==
    \A p \in Procs :
        StepOf(p, "update_subscription") /\ ~(pc'[p] = "done" /\ ret'[p].status = "ok")
            => UNCHANGED store

\* C7: run alone, an update whose payload is empty or holds only nulls fails
\* with an invalid-input error, an update of a subscription that does not exist
\* fails with not-found; no step of a call other than the one that completes
\* it successfully changes the store.
C7_UpdateFailures == []C7_Errors /\ [][C7_Frame]_vars

\* C7 witness: the only-null payload on the existing subscription 1 has failed
\* and the subscriptions are as seeded.
C7_Witness ==
    \E p \in Procs :
        /\ Completed(p, "update_subscription")
        /\ op[p].subscription_id = 1
        /\ op[p].updates = << NoneItem("status") >>
        /\ ret[p] = [status |-> "error", error |-> "No valid fields to update"]
        /\ subscriptions = SeedSubscriptions

NoSuchInvoice(invoice_id) ==
    \A i \in 1..Len(invoices) : invoices[i].invoice_id # invoice_id

C8_Error ==
    \A p \in Procs :
        Completed(p, "pay_invoice") /\ NoSuchInvoice(op[p].invoice_id) =>
            ret[p] = [status |-> "error", error |-> "Invoice not found"]

C8_Frame ==
    \A p \in Procs :
        StepOf(p, "pay_invoice") /\ NoSuchInvoice(op'[p].invoice_id) =>
            UNCHANGED store

\* C8: run alone, a payment on an invoice that does not exist fails with
\* "Invoice not found", and no step of the call changes the payments (nor any
\* other collection).
C8_PayUnknownInvoice == []C8_Error /\ [][C8_Frame]_vars

\* C8 witness: a payment on invoice 9 has failed over the seeded ledger.
C8_Witness ==
    \E p \in Procs :
        /\ Completed(p, "pay_invoice")
        /\ op[p].invoice_id = 9
        /\ ret[p].status = "error"
        /\ payments = SeedPayments

\* The invoice a payment is for.
InvoiceOf(p) ==
    invoices[CHOOSE i \in 1..Len(invoices) : invoices[i].invoice_id = op[p].invoice_id]

\* The call worker p ran just before the current one was a successful payment.
AfterPayment(p) ==
    prev[p].op.name = "pay_invoice" /\ prev[p].ret.status = "ok"

C9_Frame ==
    \A p \in Procs :
        StepOf(p, "pay_invoice") =>
            IF pc[p] = "pay_create" /\ pc'[p] = "done" /\ ret'[p].status = "ok"
            THEN /\ Len(payments') = Len(payments) + 1
                 /\ SubSeq(payments', 1, Len(payments)) = payments
                 /\ payments'[Len(payments')].invoice_id = op[p].invoice_id
                 /\ payments'[Len(payments')].amount = op[p].amount
                 /\ payments'[Len(payments')].method = op[p].method
                 /\ payments'[Len(payments')].status = "successful"
                 /\ UNCHANGED <<catalog, products, subscriptions, invoices, service_incidents,
                                security_logs, support_tickets>>
            ELSE UNCHANGED store

C9_Outstanding ==
    \A p \in Procs :
        /\ Succeeded(p, "pay_invoice") =>
              /\ ret[p].value.invoice_id = op[p].invoice_id
              /\ ret[p].value.outstanding = Owed(InvoiceOf(p))
              /\ ret[p].value.outstanding =
                    EnrichInvoice(InvoiceOf(p), QueryPayments(op[p].invoice_id)).outstanding
              /\ ret[p].value.outstanding = BillingOutstanding(InvoiceOf(p))
        /\ ( /\ AfterPayment(p)
             /\ \/ Succeeded(p, "get_subscription_detail")
                \/ Succeeded(p, "get_billing_summary") ) =>
              \A k \in 1..Len(ret[p].value.invoices) :
                  ret[p].value.invoices[k].invoice_id = prev[p].op.invoice_id =>
                      ret[p].value.invoices[k].outstanding =
                          prev[p].ret.value.outstanding

\* C9: run alone, a successful payment appends exactly one record, for the
\* invoice, with the amount, the method and the status "successful", and
\* changes nothing else; the outstanding it returns is the invoice's outstanding
\* over the ledger it leaves, which is what the subscription detail and the
\* billing summary run next report for that invoice.
C9_PayRecordsOnce == []C9_Outstanding /\ [][C9_Frame]_vars

\* C9 witness: 50 paid on invoice 1 (150, 50 already paid) over the seeded
\* ledger left 50 outstanding and a seventh payment, and the detail of
\* subscription 1 run next reports 50 for invoice 1.
C9_Witness ==
    \E p \in Procs :
        /\ Succeeded(p, "get_subscription_detail")
        /\ op[p].subscription_id = 1
        /\ AfterPayment(p)
        /\ prev[p].op.invoice_id = 1 /\ prev[p].op.amount = 50
        /\ prev[p].ret.value.outstanding = 50
        /\ Len(payments) = Len(SeedPayments) + 1
        /\ \E k \in 1..Len(ret[p].value.invoices) :
              /\ ret[p].value.invoices[k].invoice_id = 1
              /\ ret[p].value.invoices[k].outstanding = 50

\* Worker p has completed a successful payment that repeats, argument for
\* argument, the successful payment it ran just before.
Retried(p) ==
    /\ Succeeded(p, "pay_invoice")
    /\ prev[p].op = op[p]
    /\ prev[p].ret.status = "ok"

\* C10: a payment repeated in sequence with the same invoice, amount and
\* method is recorded twice, under two distinct payment ids, and is deducted
\* twice: with S the successful payments of the invoice before the first call,
\* the first call returns max(amount - (S + a), 0) and the second
\* max(amount - (S + 2a), 0).
C10_NotIdempotent ==
    \A p \in Procs :
        Retried(p) =>
            LET n == Len(payments)
                a == op[p].amount
                A == InvoiceOf(p).amount
                S == LedgerAmount(SuccessfulPaymentsOf(op[p].invoice_id) \ {n - 1, n})
            IN /\ n >= 2
               /\ \A i \in {n - 1, n} :
                     /\ payments[i].invoice_id = op[p].invoice_id
                     /\ payments[i].amount = a
                     /\ payments[i].method = op[p].method
                     /\ payments[i].status = "successful"
               /\ payments[n - 1].payment_id # payments[n].payment_id
               /\ payments[n - 1].id # payments[n].id
               /\ prev[p].ret.value.outstanding = Max2(A - (S + a), 0)
               /\ ret[p].value.outstanding = Max2(A - (S + 2 * a), 0)

\* C10 witness: 50 paid twice on invoice 1 (150) over an empty ledger: 100
\* outstanding after the first call, 50 after the retry, two records.
C10_Witness ==
    \E p \in Procs :
        /\ Retried(p)
        /\ op[p].invoice_id = 1 /\ op[p].amount = 50
        /\ prev[p].ret.value.outstanding = 100
        /\ ret[p].value.outstanding = 50
        /\ Len(payments) = 2
        /\ payments[1].payment_id = 1 /\ payments[2].payment_id = 2


\* C11 as stated: along any sequence of operations the outstanding of an
\* invoice, recomputed over the ledger, never increases; in particular a payment
\* of any amount pay_invoice_async accepts leaves the paid invoice's outstanding
\* less than or equal to what it was.
C11_Original ==
    [][\A i \in 1..Len(invoices) : Owed(invoices[i])' <= Owed(invoices[i])]_vars

\* The customer has no "account_locked" entry in the security log.
NoLockEvent(customer_id) ==
    \A i \in 1..Len(security_logs) :
        ~ /\ security_logs[i].customer_id = customer_id
          /\ security_logs[i].event_type = "account_locked"

C12_Error ==
    \A p \in Procs :
        Completed(p, "unlock_account") /\ NoLockEvent(op[p].customer_id) =>
            ret[p] = [status |-> "error",
                      error |-> "No recent lock event; nothing to do."]

C12_Frame ==
    \A p \in Procs :
        StepOf(p, "unlock_account") /\ NoLockEvent(op'[p].customer_id) =>
            UNCHANGED store

\* C12: run alone, an unlock for a customer with no "account_locked" entry
\* fails with "No recent lock event; nothing to do.", and no step of the call
\* changes the security log (nor any other collection).
C12_UnlockWithoutLock == []C12_Error /\ [][C12_Frame]_vars

\* C12 witness: customer 3, whose only seeded entry is a login attempt, was
\* refused and the security log is as seeded.
C12_Witness ==
    \E p \in Procs :
        /\ Completed(p, "unlock_account")
        /\ op[p].customer_id = 3
        /\ ret[p].status = "error"
        /\ security_logs = SeedSecurityLogs
        /\ \E i \in 1..Len(security_logs) : security_logs[i].customer_id = 3


\* The customer with the given id, for an id that exists.
CustomerOf(customer_id) ==
    customers[CHOOSE i \in 1..Len(customers) : customers[i].customer_id = customer_id]
NoSuchCustomer(customer_id) ==
    \A i \in 1..Len(customers) : customers[i].customer_id # customer_id

\* The promotions a customer of the given level is due on the given day: in
\* their date range, and either naming the level or not naming any level.
Due(loyalty, today) ==
    {i \in 1..Len(promotions) :
        /\ promotions[i].start_date <= today /\ today <= promotions[i].end_date
        /\ LET text == IF "eligibility_criteria" \in DOMAIN promotions[i]
                       THEN promotions[i].eligibility_criteria ELSE << >>
           IN \/ Contains(text, << "loyalty_level", " = '", loyalty, "'" >>)
              \/ \A n \in 1..Len(text) : text[n] # "loyalty_level"}

\* C13: for an existing customer, get_eligible_promotions_async returns, once
\* each, exactly the promotions that are in their date range today and whose
\* criteria either contain loyalty_level = '<the customer's level>' or do not
\* contain loyalty_level; so a promotion restricted to Gold never goes to a
\* customer of another level and a promotion out of its range goes to nobody.
C13_EligiblePromotions ==
    \A p \in Procs :
        Completed(p, "get_eligible_promotions") /\ ~NoSuchCustomer(op[p].customer_id) =>
            /\ ret[p].status = "ok"
            /\ LET r == ret[p].value
                   due == Due(CustomerOf(op[p].customer_id).loyalty_level, loc[p].today)
               IN /\ Len(r) = Cardinality(due)
                  /\ \A i \in due : \E k \in 1..Len(r) : r[k] = promotions[i]
                  /\ \A k \in 1..Len(r) :
                        /\ r[k].start_date <= loc[p].today
                        /\ loc[p].today <= r[k].end_date
                        /\ "eligibility_criteria" \in DOMAIN r[k] =>
                             /\ r[k].eligibility_criteria = LoyaltyIs("Gold") =>
                                   CustomerOf(op[p].customer_id).loyalty_level = "Gold"

\* C13 witness: on 2023-07-01 the Gold customer 1 gets the Gold promotion 1 and
\* the promotions 2, 7 and 8 that name no level, but neither promotion 4 (Gold,
\* not started), nor 3 (any customer, not started), nor 5 and 6 (another
\* condition on the level).
C13_Witness ==
    \E p \in Procs :
        /\ Succeeded(p, "get_eligible_promotions")
        /\ op[p].customer_id = 1
        /\ loc[p].today = 20230701
        /\ promotions = SeedPromotions \o MorePromotions
        /\ [k \in 1..Len(ret[p].value) |-> ret[p].value[k].promotion_id]
              = << 1, 2, 7, 8 >>

\* C14: get_eligible_promotions_async for an id no customer has fails with
\* "Customer not found", whatever the promotions, and returns no list.
C14_PromotionsUnknownCustomer ==
    \A p \in Procs :
        Completed(p, "get_eligible_promotions") /\ NoSuchCustomer(op[p].customer_id) =>
            ret[p] = [status |-> "error", error |-> "Customer not found"]

\* C14 witness: customer 9 was refused over a container holding promotions
\* open to any customer.
C14_Witness ==
    \E p \in Procs :
        /\ Completed(p, "get_eligible_promotions")
        /\ op[p].customer_id = 9
        /\ ret[p].status = "error"
        /\ promotions = SeedPromotions \o MorePromotions


\* The knowledge document with the given title.
DocumentTitled(title) ==
    knowledge_documents[CHOOSE i \in 1..Len(knowledge_documents) :
                            knowledge_documents[i].title = title]

\* C15: a knowledge-base search that succeeds with cap K over N documents
\* returns min(K, N) distinct documents of the collection, each reduced to its
\* title, doc_type and content (no id, no vector, no score), in an order in
\* which no document is farther from the query vector than the next one.
C15_SearchTopK ==
    \A p \in Procs :
        Succeeded(p, "search_knowledge_base") =>
            LET r == ret[p].value
                K == op[p].topk
                N == Len(knowledge_documents)
            IN /\ Len(r) = IF K < N THEN K ELSE N
               /\ \A k \in 1..Len(r) :
                     /\ DOMAIN r[k] = {"title", "doc_type", "content"}
                     /\ \E i \in 1..N :
                           /\ knowledge_documents[i].title = r[k].title
                           /\ knowledge_documents[i].doc_type = r[k].doc_type
                           /\ knowledge_documents[i].content = r[k].content
               /\ \A k, m \in 1..Len(r) : k # m => r[k].title # r[m].title
               /\ \A k \in 1..(Len(r) - 1) :
                     NotFarther(DocumentTitled(r[k].title).content_vector,
                                DocumentTitled(r[k + 1].title).content_vector,
                                loc[p].query_emb)

\* C15 witness: K = 3 over five embedded documents returned three, and, in
\* the model's geometry, document 2 first for the query "billing".
C15_Witness ==
    \E p \in Procs :
        /\ Succeeded(p, "search_knowledge_base")
        /\ op[p].topk = 3 /\ op[p].query = "billing"
        /\ knowledge_documents = SeedKnowledgeDocuments(5, TRUE)
        /\ loc[p].service = "available"
        /\ Len(ret[p].value) = 3
        /\ ret[p].value[1].title = << "title", 2 >>

\* C16 as stated: whenever the embedding collaborator is unavailable, be it
\* found so at import or when the request is made, the search uses the zero
\* vector and returns a result list.
C16_Original ==
    \A p \in Procs :
        Completed(p, "search_knowledge_base") /\ loc[p].service # "available" =>
            /\ ret[p].status = "ok"
            /\ loc[p].query_emb = ZeroVector


\* The subscriptions of a customer, as a set of positions in the container.
SubscriptionsOfCustomer(customer_id) ==
    {i \in 1..Len(subscriptions) : subscriptions[i].customer_id = customer_id}

\* C17: get_customer_detail_async fails with "Customer ... not found" when no
\* customer has the id; otherwise it returns the customer's document with one
\* more field, subscriptions, listing once each exactly the subscriptions whose
\* customer_id is the id: the empty list when there is none.
C17_CustomerDetail ==
    \A p \in Procs :
        Completed(p, "get_customer_detail") =>
            IF NoSuchCustomer(op[p].customer_id)
            THEN ret[p] = [status |-> "error",
                           error |-> "Customer {customer_id} not found"]
            ELSE /\ ret[p].status = "ok"
                 /\ LET r == ret[p].value
                        c == CustomerOf(op[p].customer_id)
                        mine == SubscriptionsOfCustomer(op[p].customer_id)
                    IN /\ DOMAIN r = DOMAIN c \cup {"subscriptions"}
                       /\ \A k \in DOMAIN c : r[k] = c[k]
                       /\ Len(r.subscriptions) = Cardinality(mine)
                       /\ \A i \in mine :
                             \E k \in 1..Len(r.subscriptions) :
                                 r.subscriptions[k] = subscriptions[i]
                       /\ mine = {} => r.subscriptions = << >>

\* C17 witness: customer 3, who has no subscription, is returned with an empty
\* list, in a store where other customers have subscriptions.
C17_Witness ==
    \E p \in Procs :
        /\ Succeeded(p, "get_customer_detail")
        /\ op[p].customer_id = 3
        /\ ret[p].value.loyalty_level = "Bronze"
        /\ ret[p].value.subscriptions = << >>
        /\ SubscriptionsOfCustomer(1) # {}

\* The orders of a customer, as a set of positions in the container.
OrdersOfCustomer(customer_id) ==
    {i \in 1..Len(orders) : orders[i].customer_id = customer_id}

\* C18: get_customer_orders_async succeeds and returns one entry per order of
\* the customer, later order dates first, each with the order's id, date,
\* amount and status and with the name of the order's product, or "Unknown"
\* when no product has the order's product_id.
C18_CustomerOrders ==
    \A p \in Procs :
        Completed(p, "get_customer_orders") =>
            /\ ret[p].status = "ok"
            /\ LET r == ret[p].value
                   mine == OrdersOfCustomer(op[p].customer_id)
               IN /\ Len(r) = Cardinality(mine)
                  /\ \A k \in 1..(Len(r) - 1) : r[k].order_date >= r[k + 1].order_date
                  /\ \A i \in mine :
                        \E k \in 1..Len(r) :
                            /\ DOMAIN r[k] = {"order_id", "order_date", "product_name",
                                              "amount", "order_status"}
                            /\ r[k].order_id = orders[i].order_id
                            /\ r[k].order_date = orders[i].order_date
                            /\ r[k].amount = orders[i].amount
                            /\ r[k].order_status = orders[i].order_status
                            /\ \A j \in 1..Len(products) :
                                  products[j].product_id = orders[i].product_id =>
                                      r[k].product_name = products[j].name
                            /\ (\A j \in 1..Len(products) :
                                   products[j].product_id # orders[i].product_id) =>
                                      r[k].product_name = "Unknown"

\* C18 witness: the three orders of customer 1, the latest first; it is the
\* order of a product that does not exist and is named "Unknown", the others
\* carry their product's name.
C18_Witness ==
    \E p \in Procs :
        /\ Succeeded(p, "get_customer_orders")
        /\ op[p].customer_id = 1
        /\ Len(ret[p].value) = 3
        /\ ret[p].value[1].order_id = 2
        /\ ret[p].value[1].product_name = "Unknown"
        /\ ret[p].value[2].product_name # "Unknown"
        /\ ret[p].value[3].product_name # "Unknown"


EnrichmentFields == {"product_name", "product_description", "category", "monthly_fee"}

\* The subscription with the given id, for an id that exists.
SubscriptionOf(subscription_id) ==
    subscriptions[CHOOSE i \in 1..Len(subscriptions) :
                      subscriptions[i].subscription_id = subscription_id]

\* C19: run alone, get_subscription_detail_async fails with "Subscription not
\* found" when no subscription has the id and otherwise succeeds with the
\* subscription's fields, its invoices list and its service_incidents list;
\* when no product has the subscription's product_id the result carries none
\* of product_name, product_description, category, monthly_fee, and when one
\* has, all four, taken from the product.
C19_DetailComposite ==
    \A p \in Procs :
        Completed(p, "get_subscription_detail") =>
            IF \A i \in 1..Len(subscriptions) :
                  subscriptions[i].subscription_id # op[p].subscription_id
            THEN ret[p] = [status |-> "error", error |-> "Subscription not found"]
            ELSE /\ ret[p].status = "ok"
                 /\ LET r == ret[p].value
                        s == SubscriptionOf(op[p].subscription_id)
                        product == {j \in 1..Len(products) :
                                       products[j].product_id = s.product_id}
                    IN /\ {"invoices", "service_incidents"} \subseteq DOMAIN r
                       /\ \A k \in DOMAIN s : r[k] = s[k]
                       /\ Len(r.invoices) =
                             Cardinality(InvoicesOfSubscription(op[p].subscription_id))
                       /\ Len(r.service_incidents) =
                             Cardinality({i \in 1..Len(service_incidents) :
                                 service_incidents[i].subscription_id
                                     = op[p].subscription_id})
                       /\ product = {} =>
                             DOMAIN r = DOMAIN s \cup {"invoices", "service_incidents"}
                       /\ product = {} => DOMAIN r \cap EnrichmentFields = {}
                       /\ \A j \in product :
                             /\ EnrichmentFields \subseteq DOMAIN r
                             /\ r.product_name = products[j].name
                             /\ r.monthly_fee = products[j].monthly_fee

\* C19 witness: subscription 1 after its product_id was set to 7, a product
\* that does not exist: the detail succeeds with the two invoices of the
\* subscription and no enrichment field.
C19_Witness ==
    \E p \in Procs :
        /\ Succeeded(p, "get_subscription_detail")
        /\ op[p].subscription_id = 1
        /\ ret[p].value.product_id = 7
        /\ Len(ret[p].value.invoices) = 2
        /\ "service_incidents" \in DOMAIN ret[p].value
        /\ DOMAIN ret[p].value \cap EnrichmentFields = {}


\* The collection only grew at its end: what it held is where it was.
Extended(before, after) ==
    /\ Len(after) >= Len(before)
    /\ \A i \in 1..Len(before) : after[i] = before[i]

\* C20: under any interleaving of the requests, every step leaves each record
\* of Payments, SupportTickets and SecurityLogs in place with all its fields:
\* these collections only receive new records.
C20_AppendOnly ==
    [][ /\ Extended(payments, payments')
        /\ Extended(support_tickets, support_tickets')
        /\ Extended(security_logs, security_logs') ]_vars

\* C20 witness: a payment and an unlock have both been recorded by concurrent
\* requests after the seeded records, which are all still there.
C20_Witness ==
    /\ Len(payments) = Len(SeedPayments) + 1
    /\ Len(security_logs) = Len(SeedSecurityLogs) + 1
    /\ Extended(SeedPayments, payments)
    /\ Extended(SeedSecurityLogs, security_logs)
    /\ support_tickets = SeedSupportTickets
    /\ \A p \in Procs : pc[p] = "done"


\* ---------------------------------------------------------------- C21
\* C21: no request writes to Invoices. Under any interleaving of the requests
\* (payments, subscription details and billing summaries among them) the
\* collection is in every state exactly what it was at the start: no invoice
\* is added, removed or changed, and the outstanding amount and the payments a
\* detail attaches to the invoices it returns are never stored.
C21_InvoicesNeverWritten ==
    /\ invoices = SeedInvoices
    /\ \A i \in 1..Len(invoices) :
          DOMAIN invoices[i] \cap {"outstanding", "payments"} = {}

\* C21 witness: a payment has been recorded against invoice 1 and a detail has
\* returned that invoice with its payments and its outstanding amount attached,
\* and Invoices is as seeded.
C21_Witness ==
    /\ invoices = SeedInvoices
    /\ \E p \in Procs, q \in Procs :
          /\ Succeeded(p, "pay_invoice") /\ op[p].invoice_id = 1
          /\ Succeeded(q, "get_subscription_detail")
          /\ \E i \in 1..Len(ret[q].value.invoices) :
                /\ ret[q].value.invoices[i].invoice_id = 1
                /\ "outstanding" \in DOMAIN ret[q].value.invoices[i]
                /\ Len(ret[q].value.invoices[i].payments) > 0


\* ---------------------------------------------------------------- C22
\* The documents seeding wrote carry the plain number as "id"; the ledger of
\* payments only grows (C20), so the states it went through since the start are
\* its prefixes from the seeded length on.
SeededLen == Cardinality({i \in 1..Len(payments) : payments[i].id = DocId("", payments[i].payment_id)})
LedgerAt(k) == SubSeq(payments, 1, k)
LedgerStates == SeededLen..Len(payments)

\* max(amount - S, 0) for the invoice with that id, S its successful payments
\* in the given ledger
OwedIn(invoice_id, ledger) ==
    LET invoice == invoices[CHOOSE i \in 1..Len(invoices) :
                               invoices[i].invoice_id = invoice_id]
    IN Max2(invoice.amount
             - SumAmount(SelectSeq(ledger, LAMBDA d : /\ d.invoice_id = invoice_id
                                                       /\ d.status = "successful")), 0)

\* the result of a billing summary is what one state k of the ledger gives
SnapshotAt(value, k) ==
    \A i \in 1..Len(value.invoices) :
        value.invoices[i].outstanding = OwedIn(value.invoices[i].invoice_id, LedgerAt(k))

\* C22: a billing summary or a subscription detail that runs while payments
\* are being recorded reads each invoice's payments at its own moment: every
\* outstanding amount it returns is the one the invoice had in some state the
\* ledger went through, total_due is the sum of the amounts returned, but the
\* states need not be the same for two invoices (the witness: no single state
\* of the ledger gives the combination returned).
C22_PerInvoiceReads ==
    /\ Succeeded(1, "get_billing_summary") =>
          /\ \A i \in 1..Len(ret[1].value.invoices) :
                \E k \in LedgerStates :
                    ret[1].value.invoices[i].outstanding
                        = OwedIn(ret[1].value.invoices[i].invoice_id, LedgerAt(k))
          /\ ret[1].value.total_due = SumOutstanding(ret[1].value.invoices)
    /\ Succeeded(1, "get_subscription_detail") =>
          \A i \in 1..Len(ret[1].value.invoices) :
              \E k \in LedgerStates :
                  LET invoice == ret[1].value.invoices[i]
                  IN /\ invoice.outstanding = OwedIn(invoice.invoice_id, LedgerAt(k))
                     /\ invoice.payments
                          = SelectSeq(LedgerAt(k),
                                      LAMBDA d : d.invoice_id = invoice.invoice_id)

\* C22 witness: a billing summary of customer 1 has returned while two payments
\* were recorded, one on invoice 1 and then one on invoice 2; the outstanding
\* amounts it returned together, and so its total_due, are those of no state
\* the ledger went through since the start.
C22_Witness ==
    /\ Succeeded(1, "get_billing_summary")
    /\ op[1].customer_id = 1
    /\ Len(payments) = SeededLen + 2
    /\ payments[SeededLen + 1].invoice_id = 1
    /\ payments[SeededLen + 2].invoice_id = 2
    /\ \A k \in LedgerStates :
          /\ ~ SnapshotAt(ret[1].value, k)
          /\ ret[1].value.total_due
               # OwedIn(1, LedgerAt(k)) + OwedIn(2, LedgerAt(k)) + OwedIn(3, LedgerAt(k))


\* ---------------------------------------------------------------- C23
StoreError(p) ==
    /\ pc[p] = "done"
    /\ ret[p].status = "error"
    /\ ret[p].error = "CosmosHttpResponseError"

FinalWrites == {"pay_create", "upd_replace", "tkt_create", "unl_create"}

\* a call that has ended with the store's error has returned nothing
C23_NoPartialResult ==
    \A p \in Procs : StoreError(p) => DOMAIN ret[p] = {"status", "error"}

\* the step in which a query fails ends the call, and changes no collection
C23_Abort ==
    \A p \in Procs :
        ret'[p].status = "error" /\ ret[p].status # "error" =>
            /\ pc'[p] = "done"
            /\ store' = store

\* a call that has ended is not taken up again: the worker's next step is a
\* new call
C23_NoRetry ==
    \A p \in Procs :
        pc[p] = "done" /\ pc'[p] # "done" =>
            /\ budget' = budget - 1
            /\ ret'[p] = NoRet /\ loc'[p] = NoLoc

\* the only step of a call that changes the store is its final create_item or
\* replace_item, when it succeeds
C23_WritesLast ==
    store' # store =>
        \E p \in Procs : /\ pc[p] \in FinalWrites
                         /\ pc'[p] = "done"
                         /\ ret'[p].status = "ok"

\* C23: when a query of the store fails the operation ends there with the
\* store's error: it returns no partial result and is not retried; and since an
\* operation writes only in its last store call, a payment, update, ticket or
\* unlock whose query failed has left every collection as it was.
C23_QueryFailureAborts ==
    /\ []C23_NoPartialResult
    /\ [][C23_Abort /\ C23_NoRetry /\ C23_WritesLast]_vars

\* C23 witness: a payment has ended with the store's error at its third query
\* (the invoice and the payments were read, the maximum identifier was not),
\* and the ledger of payments is as seeded.
C23_Witness ==
    /\ Completed(1, "pay_invoice")
    /\ StoreError(1)
    /\ DOMAIN loc[1] = {"invoice", "current_paid"}
    /\ payments = SeedPayments


\* ---------------------------------------------------------------- C24
SubscriptionIdsUnique ==
    \A i \in 1..Len(subscriptions), j \in 1..Len(subscriptions) :
        subscriptions[i].subscription_id = subscriptions[j].subscription_id => i = j

ReferencesExist ==
    \A i \in 1..Len(subscriptions) :
        /\ \E c \in 1..Len(customers) :
              customers[c].customer_id = subscriptions[i].customer_id
        /\ \E d \in 1..Len(products) :
              products[d].product_id = subscriptions[i].product_id

\* C24 as stated: starting from the store of Scenario 1, where subscription_id
\* is unique and every subscription names an existing customer and an existing
\* product, both still hold after any sequence of requests, updates of a
\* subscription with any payload included.
C24_Original ==
    SubscriptionIdsUnique /\ ReferencesExist


\* ---------------------------------------------------------------- C25
\* every document of the collection has the decimal text of its number as "id"
KeyedByNumber(coll, field) ==
    \A i \in 1..Len(coll) : coll[i].id = DocId("", coll[i][field])

\* the documents seeding wrote have the decimal text of their number as "id",
\* those added since have the prefix followed by that text
KeyedBySource(coll, seed, field, prefix) ==
    \A i \in 1..Len(coll) :
        coll[i].id = IF i <= Len(seed) /\ coll[i] = seed[i]
                     THEN DocId("", coll[i][field])
                     ELSE DocId(prefix, coll[i][field])

\* C25 as stated: every document, those created by pay_invoice_async,
\* unlock_account_async and create_support_ticket_async included, has as "id"
\* the decimal text of its numeric identifier, as the seeded documents have.
C25_Original ==
    /\ KeyedByNumber(payments, "payment_id")
    /\ KeyedByNumber(security_logs, "log_id")
    /\ KeyedByNumber(support_tickets, "ticket_id")
    /\ KeyedByNumber(subscriptions, "subscription_id")
    /\ KeyedByNumber(invoices, "invoice_id")

\* C25, amended: the seeded documents have the decimal text of their numeric
\* identifier as "id"; a document created by pay_invoice_async,
\* unlock_account_async or create_support_ticket_async has "payment_",
\* "security_log_" or "ticket_" followed by the decimal text of its numeric
\* identifier.
C25_KeyedBySource ==
    /\ KeyedBySource(payments, SeedPayments, "payment_id", "payment_")
    /\ KeyedBySource(security_logs, SeedSecurityLogs, "log_id", "security_log_")
    /\ KeyedBySource(support_tickets, SeedSupportTickets, "ticket_id", "ticket_")
    /\ KeyedByNumber(subscriptions, "subscription_id")
    /\ KeyedByNumber(invoices, "invoice_id")

\* C25 witness: after the seeded payments and tickets, a payment and a ticket
\* have been created and carry the prefixed identifiers.
C25_Witness ==
    /\ Len(payments) = Len(SeedPayments) + 1
    /\ payments[Len(SeedPayments)].id = DocId("", Len(SeedPayments))
    /\ payments[Len(payments)].id = DocId("payment_", Len(payments))
    /\ Len(support_tickets) = Len(SeedSupportTickets) + 1
    /\ support_tickets[Len(support_tickets)].id = DocId("ticket_", Len(support_tickets))


\* ---------------------------------------------------------------- C26
\* C26 as stated: on the store of Scenario 1, with the ledger as seeded (the
\* invoice of 150.00 and its one payment of 50.00), a subscription detail of
\* the scenario's subscription reports that invoice with the payment attached
\* and outstanding = 100.00.
C26_Original ==
    \A p \in Procs :
        /\ Succeeded(p, "get_subscription_detail")
        /\ op[p].subscription_id = 1
        /\ payments = Scenario1Payments
        => \E i \in 1..Len(ret[p].value.invoices) :
              /\ ret[p].value.invoices[i].invoice_id = 2
              /\ ret[p].value.invoices[i].amount = 150
              /\ ret[p].value.invoices[i].payments = Scenario1Payments
              /\ ret[p].value.invoices[i].outstanding = 100


\* ---------------------------------------------------------------- C27
\* a worker whose call has gone through get_container
PastGetContainer(p) ==
    \/ pc[p] \notin {"idle", "done", "kb_embed"} \cup FirstQueryLabels
    \/ pc[p] = "done" /\ ret[p].status = "ok"

\* C27: under any interleaving of the requests of one process the client is
\* constructed at most once: it has been constructed exactly once as soon as
\* any call has gone through get_container, every later get_container finds it
\* and the database handle in place, and nothing sets either back to None.
C27_HandleCreatedOnce ==
    /\ conn.clients_created <= 1
    /\ conn.cosmos_client = Null <=> conn.clients_created = 0
    /\ conn.database = Null <=> conn.cosmos_client = Null
    /\ \A p \in Procs : PastGetContainer(p) => conn.clients_created = 1

\* C27 witness: two requests of different operations have both completed, each
\* after its own get_container calls, and one client was constructed.
C27_Witness ==
    /\ \A p \in Procs : pc[p] = "done" /\ ret[p].status = "ok"
    /\ op[1].name = "pay_invoice"
    /\ op[2].name = "get_billing_summary"
    /\ conn = [cosmos_client |-> "CosmosClient", database |-> "DatabaseProxy",
               clients_created |-> 1]


\* ---------------------------------------------------------------- C28
\* C28: the two ways of computing an invoice's outstanding amount agree. In
\* every state of the store and for every invoice, the amount of the billing
\* summary (the store query keeps the successful payments) equals the amount of
\* the subscription detail (all payments are read, the successful ones are
\* summed); and a summary and a detail that have both returned, with no payment
\* recorded meanwhile, report the same outstanding for every invoice they share.
C28_SameOutstanding ==
    /\ \A i \in 1..Len(invoices) :
          BillingOutstanding(invoices[i])
            = EnrichInvoice(invoices[i], QueryPayments(invoices[i].invoice_id)).outstanding
    /\ \A p \in Procs, q \in Procs :
          /\ Succeeded(p, "get_billing_summary")
          /\ Succeeded(q, "get_subscription_detail")
          /\ Len(payments) = SeededLen
          => \A i \in 1..Len(ret[p].value.invoices), j \in 1..Len(ret[q].value.invoices) :
                ret[p].value.invoices[i].invoice_id = ret[q].value.invoices[j].invoice_id
                => ret[p].value.invoices[i].outstanding
                     = ret[q].value.invoices[j].outstanding

\* C28 witness: over the seeded ledger (payments of every status on invoice 1,
\* an overpayment on invoice 3) a summary of customer 1 and a detail of
\* subscription 1 have both returned, with 100 for invoice 1 and 0 for invoice 3.
C28_Witness ==
    /\ payments = SeedPayments
    /\ \E p \in Procs, q \in Procs :
          /\ Succeeded(p, "get_billing_summary") /\ op[p].customer_id = 1
          /\ Succeeded(q, "get_subscription_detail") /\ op[q].subscription_id = 1
          /\ \E i \in 1..Len(ret[p].value.invoices), j \in 1..Len(ret[q].value.invoices) :
                /\ ret[p].value.invoices[i].invoice_id = 1
                /\ ret[q].value.invoices[j].invoice_id = 1
                /\ ret[p].value.invoices[i].outstanding = 100
                /\ ret[q].value.invoices[j].outstanding = 100
          /\ \E i \in 1..Len(ret[p].value.invoices), j \in 1..Len(ret[q].value.invoices) :
                /\ ret[p].value.invoices[i].invoice_id = 3
                /\ ret[q].value.invoices[j].invoice_id = 3
                /\ ret[p].value.invoices[i].outstanding = 0
                /\ ret[q].value.invoices[j].outstanding = 0


\* ---------------------------------------------------------------- C29
DistinctIdentifiers(coll, field) ==
    \A i \in 1..Len(coll), j \in 1..Len(coll) :
        coll[i][field] = coll[j][field] => i = j

\* every record the step adds has an identifier above all those of before
AddsAbove(before, after, field) ==
    \A j \in (Len(before) + 1)..Len(after), i \in 1..Len(before) :
        after[j][field] > before[i][field]

C29_Distinct ==
    /\ DistinctIdentifiers(payments, "payment_id")
    /\ DistinctIdentifiers(security_logs, "log_id")
    /\ DistinctIdentifiers(support_tickets, "ticket_id")

C29_Increasing ==
    /\ AddsAbove(payments, payments', "payment_id")
    /\ AddsAbove(security_logs, security_logs', "log_id")
    /\ AddsAbove(support_tickets, support_tickets', "ticket_id")

\* C29: when the allocating requests run one at a time on collections whose
\* identifiers are pairwise distinct, the identifiers stay pairwise distinct,
\* and each record created has an identifier strictly greater than every
\* identifier the collection held before.
C29_SequentialAllocation == []C29_Distinct /\ [][C29_Increasing]_vars

\* C29 witness: after the seeded records two payments were created in a row,
\* numbered one and two above the seeded maximum, and then an unlock entry
\* numbered one above the seeded maximum of the security logs.
C29_Witness ==
    /\ Len(payments) = Len(SeedPayments) + 2
    /\ payments[Len(SeedPayments) + 1].payment_id = Len(SeedPayments) + 1
    /\ payments[Len(SeedPayments) + 2].payment_id = Len(SeedPayments) + 2
    /\ Len(security_logs) = Len(SeedSecurityLogs) + 1
    /\ security_logs[Len(security_logs)].log_id = Len(SeedSecurityLogs) + 1
    /\ Extended(SeedPayments, payments)
    /\ pc[1] = "done"


\* ---------------------------------------------------------------- C30
UnlockEntries(customer_id) ==
    {i \in 1..Len(security_logs) :
        /\ security_logs[i].customer_id = customer_id
        /\ security_logs[i].event_type = "account_unlocked"}

\* the call worker p ran just before the current one was a successful unlock of
\* the same customer
AfterUnlock(p) ==
    /\ prev[p].op.name = "unlock_account"
    /\ prev[p].ret.status = "ok"
    /\ prev[p].op.customer_id = op[p].customer_id

\* an unlock of a customer with a lock entry succeeds, whatever unlock entries
\* there are; one that follows a successful unlock succeeds again and the
\* customer then has at least two unlock entries
C30_Succeeds ==
    \A p \in Procs :
        Completed(p, "unlock_account") /\ ~ NoLockEvent(op[p].customer_id) =>
            /\ ret[p] = [status |-> "ok", value |-> [message |-> "Account unlocked"]]
            /\ Cardinality(UnlockEntries(op[p].customer_id))
                 >= IF AfterUnlock(p) THEN 2 ELSE 1

\* the step that completes the call appends exactly one entry, an
\* "account_unlocked" of the customer; its other steps leave the log as it is
C30_AppendsOne ==
    \A p \in Procs :
        StepOf(p, "unlock_account") =>
            IF pc[p] = "unl_create"
            THEN /\ Len(security_logs') = Len(security_logs) + 1
                 /\ Extended(security_logs, security_logs')
                 /\ security_logs'[Len(security_logs')].event_type = "account_unlocked"
                 /\ security_logs'[Len(security_logs')].customer_id = op[p].customer_id
                 /\ ret'[p].status = "ok"
            ELSE security_logs' = security_logs

=============================================================================
